---- MODULE Spec2Model ----
(***************************************************************************)
(* A model of the psemu core: the LR33300 interpreter (CPU::reset,         *)
(* CPU::step, CPU::trap), the system bus (SystemBus::memory_access) and    *)
(* the GP0 command port of the GPU (GPU::gp0).                             *)
(*                                                                         *)
(* A 32-bit Word is the pair <<high halfword, low halfword>>, so that the  *)
(* arithmetic of the code wraps at 2^32 exactly as uint32_t does.          *)
(***************************************************************************)
EXTENDS Integers, Sequences, FiniteSets, TLC

----------------------------------------------------------------------------
(* types.h: Word, Halfword, Byte and the conversions between them.         *)

W(h, l) == <<h, l>>

W0 == W(0, 0)

Pow2(n) == 2 ^ n

RECURSIVE BitAndH(_, _)
BitAndH(a, b) ==
    IF a = 0 \/ b = 0 THEN 0
    ELSE (a % 2) * (b % 2) + 2 * BitAndH(a \div 2, b \div 2)

BitOrH(a, b) == a + b - BitAndH(a, b)

BitXorH(a, b) == a + b - 2 * BitAndH(a, b)

BitAnd(a, b) == W(BitAndH(a[1], b[1]), BitAndH(a[2], b[2]))

BitOr(a, b) == W(BitOrH(a[1], b[1]), BitOrH(a[2], b[2]))

BitXor(a, b) == W(BitXorH(a[1], b[1]), BitXorH(a[2], b[2]))

BitNot(a) == W(65535 - a[1], 65535 - a[2])

\* uint32_t addition and subtraction (mod 2^32).
Add(a, b) ==
    LET l == a[2] + b[2]
    IN  W((a[1] + b[1] + (l \div 65536)) % 65536, l % 65536)

Sub(a, b) ==
    LET l == a[2] - b[2]
        borrow == IF l < 0 THEN 1 ELSE 0
    IN  W((a[1] - b[1] - borrow + 65536) % 65536, (l + 65536) % 65536)

\* a << n, a >> n (logical) and a >> n (arithmetic), n in 0..31.
Shl(a, n) ==
    IF n >= 16 THEN W((a[2] * Pow2(n - 16)) % 65536, 0)
    ELSE W((a[1] * Pow2(n) + ((a[2] * Pow2(n)) \div 65536)) % 65536,
           (a[2] * Pow2(n)) % 65536)

Shr(a, n) ==
    IF n >= 16 THEN W(0, a[1] \div Pow2(n - 16))
    ELSE W(a[1] \div Pow2(n),
           (a[2] \div Pow2(n)) + (a[1] % Pow2(n)) * Pow2(16 - n))

Negative(a) == a[1] >= 32768

Sra(a, n) ==
    IF ~Negative(a) THEN Shr(a, n)
    ELSE BitNot(Shr(BitNot(a), n))

\* Unsigned and signed (int32_t) comparison.
ULt(a, b) == a[1] < b[1] \/ (a[1] = b[1] /\ a[2] < b[2])

SLt(a, b) ==
    IF Negative(a) # Negative(b) THEN Negative(a) ELSE ULt(a, b)

\* static_cast<Word>(static_cast<SignedHalfword>(h)) and the same for a byte.
SignExtendHalfword(h) == W(IF h >= 32768 THEN 65535 ELSE 0, h)

SignExtendByte(b) == W(IF b >= 128 THEN 65535 ELSE 0, IF b >= 128 THEN 65280 + b ELSE b)

ZeroExtend(h) == W(0, h)

\* The four bytes of a word, least significant first, and back.
Bytes(w) == <<w[2] % 256, w[2] \div 256, w[1] % 256, w[1] \div 256>>

FromBytes(b) == W(b[4] * 256 + b[3], b[2] * 256 + b[1])

\* The value of the low `size` bytes of a word (a conversion to Byte/Halfword).
Truncate(w, size) ==
    IF size = 1 THEN W(0, w[2] % 256)
    ELSE IF size = 2 THEN W(0, w[2])
    ELSE w

----------------------------------------------------------------------------
(* gpu.h / gpu.cpp: the GPU.  vram holds the cells that are not zero.      *)

VRAM_WIDTH == 1024

VRAM_HEIGHT == 512

\* A read of the cell to the right.
VramCell_Neighbour(vram, i) == IF (i + 1) \in DOMAIN vram THEN vram[i + 1] ELSE 0

VramCell(vram, i) == IF i \in DOMAIN vram THEN vram[i] ELSE 0

VramInRange(i) == i >= 0 /\ i < VRAM_WIDTH * VRAM_HEIGHT

\* vram[i] = v.  An index outside the array is undefined behaviour: it is
\* recorded in g.oob and leaves the modelled cells alone.
VramWrite(g, i, v) ==
    IF ~VramInRange(i) THEN [g EXCEPT !.oob = TRUE]
    ELSE [g EXCEPT !.vram =
              [j \in (DOMAIN g.vram \cup {i}) \ (IF v = 0 THEN {i} ELSE {}) |->
                  IF j = i THEN v ELSE g.vram[j]]]

Cursor0 == [x |-> 0, y |-> 0, x_max |-> 0]

\* A port reset that keeps the parameters of the finished command.
reset_gp0_KeepsParams(g) ==
    [g EXCEPT !.gp0_state = "AwaitingCommand",
              !.func = "none",
              !.remaining_words = 0]

reset_gp0(g) ==
    [g EXCEPT !.gp0_state = "AwaitingCommand",
              !.params = <<>>,
              !.func = "none",
              !.remaining_words = 0]

\* GPU::reset on a GPU whose function-static cursors are still zero.
GPUReset ==
    [vram |-> <<>>, gpuread |-> W0, gp0_state |-> "AwaitingCommand",
     params |-> <<>>, func |-> "none", remaining_words |-> 0,
     to_vram |-> Cursor0, to_cpu |-> Cursor0, oob |-> FALSE]

SignedHalf(h) == IF h >= 32768 THEN h - 65536 ELSE h

draw_rect(g, x, y, color) ==
    LET pixel_r == (color[2] % 256) \div 8
        pixel_g == (color[2] \div 256) \div 8
        pixel_b == (color[1] % 256) \div 8
    IN  VramWrite(g, x + VRAM_WIDTH * y,
                  BitOrH(BitOrH(pixel_g * 32, pixel_b * 1024), pixel_r))

\* A helper that draws and leaves the port as it is.
draw_rect_helper_NoReset(g) ==
    draw_rect(g, SignedHalf(g.params[2][2]), SignedHalf(g.params[2][1]), g.params[1])

draw_rect_helper(g) ==
    reset_gp0(draw_rect(g, SignedHalf(g.params[2][2]), SignedHalf(g.params[2][1]),
                        g.params[1]))

\* The header of a 0xA0/0xC0 transfer: the cursor and the word count.
TransferWidth(g) == ((g.params[2][2] + 1023) % 1024) + 1

TransferHeight(g) == ((g.params[2][1] + 511) % 512) + 1

TransferX0(g) == g.params[1][2] % 1024

TransferY0(g) == g.params[1][1] % 512

\* A cursor that never leaves its row.
CursorNext_SameRow(g, cur) == [cur EXCEPT !.x = @ + 1]

\* x++ followed by the end-of-line test, on one of the two static cursors.
CursorNext(g, cur) ==
    IF cur.x + 1 >= cur.x_max
    THEN [cur EXCEPT !.y = @ + 1, !.x = TransferX0(g)]
    ELSE [cur EXCEPT !.x = @ + 1]

CursorIndex(cur) == cur.x + VRAM_WIDTH * cur.y

\* The lambda of GP0(0xA0), called with `data`.
CopyToVram(g, data) ==
    IF g.gp0_state = "ReceivingParameters"
    THEN [g EXCEPT !.to_vram = [x |-> TransferX0(g), y |-> TransferY0(g),
                                x_max |-> TransferX0(g) + TransferWidth(g)],
                   !.remaining_words = (TransferWidth(g) * TransferHeight(g)) \div 2,
                   !.gp0_state = "ReceivingData"]
    ELSE LET c1 == CursorNext(g, g.to_vram)
             c2 == CursorNext(g, c1)
             g1 == VramWrite(g, CursorIndex(g.to_vram), data[2])
             g2 == VramWrite(g1, CursorIndex(c1), data[1])
             g3 == IF g.remaining_words # 0
                   THEN [g2 EXCEPT !.to_vram = c2, !.remaining_words = @ - 1]
                   ELSE g
         IN  IF g3.remaining_words = 0 THEN reset_gp0(g3) ELSE g3

\* The lambda of GP0(0xC0), called with `data`.
CopyToCpu(g, data) ==
    IF g.gp0_state = "ReceivingParameters"
    THEN [g EXCEPT !.to_cpu = [x |-> TransferX0(g), y |-> TransferY0(g),
                               x_max |-> TransferX0(g) + TransferWidth(g)],
                   !.remaining_words = (TransferWidth(g) * TransferHeight(g)) \div 2,
                   !.gp0_state = "TransferringData"]
    ELSE LET c1 == CursorNext(g, g.to_cpu)
             c2 == CursorNext(g, c1)
             i0 == CursorIndex(g.to_cpu)
             i1 == CursorIndex(c1)
             g3 == IF g.remaining_words # 0
                   THEN [g EXCEPT !.to_cpu = c2, !.remaining_words = @ - 1,
                                  !.gpuread = W(VramCell(g.vram, i1), VramCell(g.vram, i0)),
                                  !.oob = @ \/ ~VramInRange(i0) \/ ~VramInRange(i1)]
                   ELSE g
         IN  IF g3.remaining_words = 0 THEN reset_gp0(g3) ELSE g3

CallFunc(g, data) ==
    CASE g.func = "draw_rect" -> draw_rect_helper(g)
      [] g.func = "to_vram"   -> CopyToVram(g, data)
      [] g.func = "to_cpu"    -> CopyToCpu(g, data)
      [] OTHER                -> g

gp0(g, packet) ==
    CASE g.gp0_state = "AwaitingCommand" ->
            LET command == packet[1] \div 256
            IN  CASE command = \h68 ->
                        [g EXCEPT !.params = Append(@, W(packet[1] % 256, packet[2])),
                                  !.remaining_words = 1,
                                  !.func = "draw_rect",
                                  !.gp0_state = "ReceivingParameters"]
                  [] command = \hA0 ->
                        [g EXCEPT !.remaining_words = 2,
                                  !.gp0_state = "ReceivingParameters",
                                  !.func = "to_vram"]
                  [] command = \hC0 ->
                        [g EXCEPT !.remaining_words = 2,
                                  !.gp0_state = "ReceivingParameters",
                                  !.func = "to_cpu"]
                  [] OTHER -> g
      [] g.gp0_state = "ReceivingParameters" ->
            LET g1 == [g EXCEPT !.params = Append(@, packet),
                                !.remaining_words = @ - 1]
            IN  IF g1.remaining_words = 0 THEN CallFunc(g1, W0) ELSE g1
      [] OTHER -> CallFunc(g, packet)

\* A GP1 that takes every packet as a reset of the command port.
gp1_ResetsPort(g, packet) == reset_gp0(g)

gp1(g, packet) == g

----------------------------------------------------------------------------
(* bus.h / bus.cpp: the system bus.  ram, scratchpad and bios hold the     *)
(* bytes that are not zero, by byte offset.                                *)

RAM_SIZE == 2097152

SCRATCHPAD_SIZE == 1024

BIOS_SIZE == 524288

\* One byte of a backing array.  A byte beyond the array is undefined
\* behaviour: the read yields the arbitrary byte u.
ByteAt(arr, size, off, u) ==
    IF off >= size THEN u
    ELSE IF off \in DOMAIN arr THEN arr[off] ELSE 0

\* std::memcpy(&result, &arr[off], n), as a little-endian word.
CopyFrom(arr, size, off, n, u) ==
    FromBytes([k \in 1..4 |-> IF k <= n THEN ByteAt(arr, size, off + k - 1, u) ELSE 0])

\* std::memcpy(&arr[off], &data, n).
CopyTo(arr, off, n, data) ==
    LET touched == {off + k - 1 : k \in 1..n}
        byte(j) == Bytes(data)[j - off + 1]
        zeroed == {j \in touched : byte(j) = 0}
    IN  [j \in (DOMAIN arr \cup touched) \ zeroed |->
            IF j \in touched THEN byte(j) ELSE arr[j]]

InArray(size, off, n) == off + n <= size

\* A mask that clears bit 31 only.
Paddr_Bit31(vaddr) == W(vaddr[1] % 32768, vaddr[2])

\* vaddr & 0x1FFFFFFF
Paddr(vaddr) == W(vaddr[1] % 8192, vaddr[2])

\* The switch on (paddr & 0xFFFF0000) >> 16 and below it: the region an
\* address decodes to, and the offset the code uses inside it.
Region(paddr) ==
    CASE paddr[1] >= \h0000 /\ paddr[1] <= \h001F ->
            [region |-> "ram", off |-> paddr[1] * 65536 + paddr[2]]
      [] paddr[1] = \h1F80 /\ paddr[2] \div 4096 = 0 ->
            [region |-> "scratchpad", off |-> paddr[2] % 4096]
      [] paddr[1] = \h1F80 /\ paddr[2] \div 4096 = 1 ->
            [region |-> "io", off |-> paddr[2] % 4096]
      [] paddr[1] >= \h1FC0 /\ paddr[1] <= \h1FC7 ->
            [region |-> "bios", off |-> (paddr[1] % 16) * 65536 + paddr[2]]
      [] OTHER ->
            [region |-> "unknown", off |-> 0]

Decode(vaddr) == Region(Paddr(vaddr))

GP0 == \h810

GP1 == \h814

GPUSTAT == \h814

\* Whether an access of n bytes leaves the backing array of the region d it
\* decodes to.
RegionOob(bus, n, d) ==
    CASE d.region = "ram"        -> ~InArray(bus.ram_size, d.off, n)
      [] d.region = "scratchpad" -> ~InArray(SCRATCHPAD_SIZE, d.off, n)
      [] d.region = "bios"       -> ~InArray(BIOS_SIZE, d.off, n)
      [] OTHER                   -> FALSE

AccessOob(bus, n, vaddr) == RegionOob(bus, n, Decode(vaddr))

\* The cases of the read switch, on the decoded address d.
ReadRegion(bus, n, d, u) ==
    CASE d.region = "ram" ->
            CopyFrom(bus.ram, bus.ram_size, d.off, n, u)
      [] d.region = "scratchpad" ->
            CopyFrom(bus.scratchpad, SCRATCHPAD_SIZE, d.off, n, u)
      [] d.region = "io" ->
            IF d.off = GPUSTAT THEN Truncate(W(\h1FF0, \h0000), n) ELSE W0
      [] d.region = "bios" ->
            CopyFrom(bus.bios, BIOS_SIZE, d.off, n, u)
      [] OTHER -> W0

\* memory_access<T>(vaddr), sizeof(T) = n: the value read, zero-extended to
\* a word.
memory_access(bus, n, vaddr, u) == ReadRegion(bus, n, Decode(vaddr), u)

\* A write switch with a case for the BIOS range.
WriteRegion_BiosCase(bus, n, d, data) ==
    IF d.region = "bios" /\ InArray(BIOS_SIZE, d.off, n)
    THEN [bus EXCEPT !.bios = CopyTo(@, d.off, n, data)]
    ELSE bus

\* The cases of the write switch, on the decoded address d.  A write that
\* leaves its backing array is undefined behaviour: it is recorded in bus.oob.
WriteRegion(bus, n, d, data) ==
    CASE d.region = "ram" ->
            IF InArray(bus.ram_size, d.off, n)
            THEN [bus EXCEPT !.ram = CopyTo(@, d.off, n, data)]
            ELSE [bus EXCEPT !.oob = TRUE]
      [] d.region = "scratchpad" ->
            IF InArray(SCRATCHPAD_SIZE, d.off, n)
            THEN [bus EXCEPT !.scratchpad = CopyTo(@, d.off, n, data)]
            ELSE [bus EXCEPT !.oob = TRUE]
      [] d.region = "io" /\ d.off = GP0 ->
            [bus EXCEPT !.gpu = gp0(@, Truncate(data, n))]
      [] d.region = "io" /\ d.off = GP1 ->
            [bus EXCEPT !.gpu = gp1(@, Truncate(data, n))]
      [] OTHER -> bus

\* memory_access<T>(vaddr, data), sizeof(T) = n.
memory_access_write(bus, n, vaddr, data) == WriteRegion(bus, n, Decode(vaddr), data)

\* SystemBus::SystemBus followed by set_bios_data(image) and GPU::reset.
BusInit(image) ==
    [ram |-> <<>>, ram_size |-> RAM_SIZE, scratchpad |-> <<>>,
     bios |-> image, gpu |-> GPUReset, oob |-> FALSE]

----------------------------------------------------------------------------
(* cpu.h / cpu.cpp: the interpreter.                                       *)

\* The bitfield view of instruction.word.
op(w) == w[1] \div 1024

rs(w) == (w[1] \div 32) % 32

rt(w) == w[1] % 32

rd(w) == w[2] \div 2048

shamt(w) == (w[2] \div 64) % 32

funct(w) == w[2] % 64

target(w) == W(w[1] % 1024, w[2])

immediate(w) == w[2]

offset(w) == immediate(w)

base(w) == rs(w)

vaddr(c) == Add(SignExtendHalfword(offset(c.instruction)), c.gpr[base(c.instruction)])

\* enum Exception
AdEL == 4

AdES == 5

Sys == 8

Bp == 9

Ovf == 12

\* enum COP0Register
BadA == 8

SR == 12

Cause == 13

EPC == 14

RESET_VECTOR == W(\hBFC0, \h0000)

W4 == W(0, 4)

\* cop0[index] as an rvalue and as the target of an assignment.
Cop0Read(cop0, index) ==
    CASE index = BadA  -> cop0.BadA
      [] index = SR    -> cop0.SR
      [] index = Cause -> cop0.Cause
      [] index = EPC   -> cop0.EPC
      [] OTHER         -> cop0.unused

\* A write that lands in SR whatever the index.
Cop0Write_ToSR(cop0, index, v) == [cop0 EXCEPT !.SR = v]

Cop0Write(cop0, index, v) ==
    CASE index = BadA  -> [cop0 EXCEPT !.BadA = v]
      [] index = SR    -> [cop0 EXCEPT !.SR = v]
      [] index = Cause -> [cop0 EXCEPT !.Cause = v]
      [] index = EPC   -> [cop0 EXCEPT !.EPC = v]
      [] OTHER         -> [cop0 EXCEPT !.unused = v]

\* An isolation test on bit 17 of SR.
IsC_Bit17(sr) == (sr[1] \div 2) % 2 = 1

\* SRBits::IsC, bit 16 of SR.
IsC(sr) == sr[1] % 2 = 1

\* A trap that shifts all six mode bits of SR and keeps the old ExcCode bits.
trap_WideShift(c, exc, bad_vaddr) ==
    LET sr    == BitOr(BitAnd(c.cop0.SR, W(\hFFFF, \hFFC0)),
                       Shl(BitAnd(c.cop0.SR, W(\h0000, \h003F)), 2))
        cause == BitOr(c.cop0.Cause, Shl(W(0, exc), 2))
    IN  [c EXCEPT !.cop0 = [@ EXCEPT !.EPC = Sub(c.pc, W4), !.SR = sr,
                                     !.Cause = cause,
                                     !.BadA = IF exc = AdEL THEN bad_vaddr ELSE @],
                  !.pc = W(\h8000, \h0080),
                  !.next_pc = Add(W(\h8000, \h0080), W4)]

\* A trap that records the bad address for every exception code.
trap_AnyBadA(c, exc, bad_vaddr) ==
    [c EXCEPT !.cop0 = [@ EXCEPT
                  !.EPC = Sub(c.pc, W4),
                  !.SR = BitOr(BitAnd(c.cop0.SR, W(\hFFFF, \hFFC0)),
                               Shl(BitAnd(c.cop0.SR, W(\h0000, \h000F)), 2)),
                  !.Cause = BitOr(BitAnd(c.cop0.Cause, BitNot(W(\hFFFF, \h00FF))),
                                  Shl(W(0, exc), 2)),
                  !.BadA = bad_vaddr],
              !.pc = W(\h8000, \h0080),
              !.next_pc = Add(W(\h8000, \h0080), W4)]

trap(c, exc, bad_vaddr) ==
    LET epc   == Sub(c.pc, W4)
        sr    == BitOr(BitAnd(c.cop0.SR, W(\hFFFF, \hFFC0)),
                       Shl(BitAnd(c.cop0.SR, W(\h0000, \h000F)), 2))
        cause == BitOr(BitAnd(c.cop0.Cause, BitNot(W(\hFFFF, \h00FF))),
                       Shl(W(0, exc), 2))
        bada  == IF exc = AdEL THEN bad_vaddr ELSE c.cop0.BadA
    IN  [c EXCEPT !.cop0 = [@ EXCEPT !.EPC = epc, !.SR = sr, !.Cause = cause,
                                     !.BadA = bada],
                  !.pc = W(\h8000, \h0080),
                  !.next_pc = Add(W(\h8000, \h0080), W4)]

\* static_cast<SignedHalfword>(offset() << 2)
BranchOffset(w) == SignExtendHalfword((offset(w) * 4) % 65536)

\* A branch that redirects pc itself, leaving no delay slot.
branch_if_NoDelay(c, condition_met) ==
    IF condition_met
    THEN [c EXCEPT !.pc = Add(BranchOffset(c.instruction), c.pc),
                   !.next_pc = Add(Add(BranchOffset(c.instruction), c.pc), W4)]
    ELSE c

branch_if(c, condition_met) ==
    IF condition_met
    THEN [c EXCEPT !.next_pc = Add(BranchOffset(c.instruction), c.pc)]
    ELSE c

\* The advance without next_pc += 4.
Advance_NoIncrement(c) == [c EXCEPT !.pc = c.next_pc]

\* pc = next_pc; next_pc += 4;
Advance(c) == [c EXCEPT !.pc = c.next_pc, !.next_pc = Add(c.next_pc, W4)]

\* The step without its closing write to gpr[0].
ClearZero_Omitted(c) == c

\* gpr[0] = 0x00000000;
ClearZero(c) == [c EXCEPT !.gpr[0] = W0]

----------------------------------------------------------------------------
(* One call of step() runs on a context x: the CPU, the bus, and a record  *)
(* of what the call did -- the traps it raised, its bus accesses and the    *)
(* instruction word it executed.                                           *)

Trapped(x, exc, bad_vaddr, after) ==
    [x EXCEPT !.cpu = after,
              !.traps = Append(@, [exc |-> exc, bad_vaddr |-> bad_vaddr,
                                   before |-> x.cpu, after |-> after])]

Raise(x, exc, bad_vaddr) == Trapped(x, exc, bad_vaddr, trap(x.cpu, exc, bad_vaddr))

Accessed(x, kind, n, va) ==
    [x EXCEPT !.acc = Append(@, [kind |-> kind, size |-> n, vaddr |-> va,
                                 oob |-> AccessOob(x.bus, n, va)])]

\* gpr[r] = v
SetGpr(x, r, v) == [x EXCEPT !.cpu.gpr[r] = v]

\* A load that never sign-extends.
Extend_Unsigned(raw, n, signed) == raw

\* gpr[r] = bus.memory_access<T>(va), T unsigned or signed of n bytes.
Extend(raw, n, signed) ==
    IF ~signed THEN raw
    ELSE IF n = 1 THEN SignExtendByte(raw[2])
    ELSE IF n = 2 THEN SignExtendHalfword(raw[2])
    ELSE raw

LoadGpr(x, r, n, signed, va, u) ==
    SetGpr(Accessed(x, "read", n, va), r,
           Extend(memory_access(x.bus, n, va, u), n, signed))

\* bus.memory_access<T>(va, data)
Store(x, n, va, data) ==
    [Accessed(x, "write", n, va) EXCEPT !.bus = memory_access_write(@, n, va, data)]

----------------------------------------------------------------------------
(* 64-bit products and 32-bit quotients, on words.                         *)

\* Column k (0..7) of the schoolbook product of two words, by bytes.
MulTerm(a, b, k, i) ==
    IF k - i \in 0..3 THEN Bytes(a)[i + 1] * Bytes(b)[k - i + 1] ELSE 0

MulColumn(a, b, k) ==
    MulTerm(a, b, k, 0) + MulTerm(a, b, k, 1) + MulTerm(a, b, k, 2) + MulTerm(a, b, k, 3)

RECURSIVE MulBytes(_, _, _, _)
MulBytes(a, b, k, t) ==
    IF k = 8 THEN <<>>
    ELSE <<t % 256>> \o MulBytes(a, b, k + 1, MulColumn(a, b, k + 1) + (t \div 256))

\* static_cast<uint64_t>(a) * static_cast<uint64_t>(b), as [lo, hi].
Product(p) == [lo |-> FromBytes(SubSeq(p, 1, 4)), hi |-> FromBytes(SubSeq(p, 5, 8))]

MulUnsigned(a, b) == Product(MulBytes(a, b, 0, MulColumn(a, b, 0)))

\* The int64_t product of the two int32_t values, as [lo, hi].
SignCorrected(a, b, p) ==
    [lo |-> p.lo,
     hi |-> Sub(Sub(p.hi, IF Negative(a) THEN b ELSE W0), IF Negative(b) THEN a ELSE W0)]

MulSigned(a, b) == SignCorrected(a, b, MulUnsigned(a, b))

\* Long division of a word by a word, one byte of the dividend at a time.  A
\* wide value <<h, l>> is h * 65536 + l with l below 65536; h may exceed a
\* halfword.
Times(b, d) == <<d * b[1] + ((d * b[2]) \div 65536), (d * b[2]) % 65536>>

LeWide(x, y) == x[1] < y[1] \/ (x[1] = y[1] /\ x[2] <= y[2])

MinusWide(t, p) ==
    W(t[1] - p[1] - (IF t[2] < p[2] THEN 1 ELSE 0), (t[2] - p[2] + 65536) % 65536)

\* The quotient digit of t by b, for t below 256 * b.
Digit(t, b) ==
    CHOOSE d \in 0..255 : LeWide(Times(b, d), t) /\ ~LeWide(Times(b, d + 1), t)

DivDigit(b, q, t, d) ==
    [quot |-> W(((q[1] * 256) % 65536) + (q[2] \div 256), (q[2] % 256) * 256 + d),
     rem  |-> MinusWide(t, Times(b, d))]

DivWide(b, q, t) == DivDigit(b, q, t, Digit(t, b))

\* m, the quotient and remainder so far, with one more byte brought down.
DivByte(b, byte, m) ==
    DivWide(b, m.quot,
            <<m.rem[1] * 256 + (m.rem[2] \div 256), (m.rem[2] % 256) * 256 + byte>>)

\* a / b and a % b on uint32_t, b # 0.
DivUnsigned(a, b) ==
    DivByte(b, Bytes(a)[1], DivByte(b, Bytes(a)[2], DivByte(b, Bytes(a)[3],
        DivByte(b, Bytes(a)[4], [quot |-> W0, rem |-> W0]))))

Abs(a) == IF Negative(a) THEN Sub(W0, a) ELSE a

\* A signed division whose remainder takes the sign of the divisor.
Signed_DivisorSign(a, b, m) ==
    [quot |-> IF Negative(a) # Negative(b) THEN Sub(W0, m.quot) ELSE m.quot,
     rem  |-> IF Negative(b) THEN Sub(W0, m.rem) ELSE m.rem]

\* a / b and a % b on int32_t (truncation toward zero), b # 0 and the
\* quotient representable.
Signed(a, b, m) ==
    [quot |-> IF Negative(a) # Negative(b) THEN Sub(W0, m.quot) ELSE m.quot,
     rem  |-> IF Negative(a) THEN Sub(W0, m.rem) ELSE m.rem]

DivSigned(a, b) == Signed(a, b, DivUnsigned(Abs(a), Abs(b)))

Bool(b) == IF b THEN W(0, 1) ELSE W0

----------------------------------------------------------------------------
(* The switch of CPU::step, on the context x after fetch and advance.      *)

\* lo and hi from a 64-bit product, and from a quotient and remainder.
WithProduct(x, p) == [x EXCEPT !.cpu.lo = p.lo, !.cpu.hi = p.hi]

WithQuotient(x, m) == [x EXCEPT !.cpu.lo = m.quot, !.cpu.hi = m.rem]

\* The overflow test of ADD with the operand sign test inverted.
AddOverflows_SignFlipped(a, b, result) ==
    Negative(BitXor(a, b)) /\ Negative(BitXor(result, a))

\* An alignment test that only words get.
Misaligned_WordOnly(va, n) == n = 4 /\ va[2] % 4 # 0

\* The overflow tests of ADD/ADDI and of SUB, on the operands and the result.
AddOverflows(a, b, result) ==
    ~Negative(BitXor(a, b)) /\ Negative(BitXor(result, a))

SubOverflows(a, b, result) ==
    Negative(BitXor(a, b)) /\ Negative(BitXor(result, a))

\* (m_vaddr & (n - 1)) != 0, n the size of the access.
Misaligned(va, n) == va[2] % n # 0

\* case InstructionGroup::SPECIAL: switch (instruction.funct)
ExecSpecial(x) ==
    LET i == x.cpu.instruction
        g == x.cpu.gpr
        s == g[rs(i)]
        t == g[rt(i)]
        d == rd(i)
        f == funct(i)
    IN  CASE f = \h00 -> SetGpr(x, d, Shl(t, shamt(i)))
          [] f = \h02 -> SetGpr(x, d, Shr(t, shamt(i)))
          [] f = \h03 -> SetGpr(x, d, Sra(t, shamt(i)))
          [] f = \h04 -> SetGpr(x, d, Shl(t, s[2] % 32))
          [] f = \h06 -> SetGpr(x, d, Shr(t, s[2] % 32))
          [] f = \h07 -> SetGpr(x, d, Sra(t, s[2] % 32))
          [] f = \h08 -> [x EXCEPT !.cpu.next_pc = s]
          [] f = \h09 ->
                LET x1 == SetGpr(x, d, x.cpu.next_pc)
                IN  [x1 EXCEPT !.cpu.next_pc = x1.cpu.gpr[rs(i)]]
          [] f = \h0C -> Raise(x, Sys, W0)
          [] f = \h0D -> Raise(x, Bp, W0)
          [] f = \h10 -> SetGpr(x, d, x.cpu.hi)
          [] f = \h11 -> [x EXCEPT !.cpu.hi = s]
          [] f = \h12 -> SetGpr(x, d, x.cpu.lo)
          [] f = \h13 -> [x EXCEPT !.cpu.lo = s]
          [] f = \h18 ->
                WithProduct(x, MulSigned(s, t))
          [] f = \h19 ->
                WithProduct(x, MulUnsigned(s, t))
          [] f = \h1A ->
                IF t = W0
                THEN [x EXCEPT !.cpu.lo = IF Negative(s) THEN W(\h0000, \h0001)
                                          ELSE W(\hFFFF, \hFFFF),
                               !.cpu.hi = s]
                ELSE IF s = W(\h8000, \h0000) /\ t = W(\hFFFF, \hFFFF)
                THEN [x EXCEPT !.cpu.lo = s, !.cpu.hi = W0]
                ELSE WithQuotient(x, DivSigned(s, t))
          [] f = \h1B ->
                IF t = W0
                THEN [x EXCEPT !.cpu.lo = W(\hFFFF, \hFFFF), !.cpu.hi = s]
                ELSE WithQuotient(x, DivUnsigned(s, t))
          [] f = \h20 ->
                LET result == Add(s, t)
                IN  IF AddOverflows(s, t, result)
                    THEN Raise(x, Ovf, W0)
                    ELSE SetGpr(x, d, result)
          [] f = \h21 -> SetGpr(x, d, Add(s, t))
          [] f = \h22 ->
                LET result == Sub(s, t)
                IN  IF SubOverflows(s, t, result)
                    THEN Raise(x, Ovf, W0)
                    ELSE SetGpr(x, d, result)
          [] f = \h23 -> SetGpr(x, d, Sub(s, t))
          [] f = \h24 -> SetGpr(x, d, BitAnd(s, t))
          [] f = \h25 -> SetGpr(x, d, BitOr(s, t))
          [] f = \h26 -> SetGpr(x, d, BitXor(s, t))
          [] f = \h27 -> SetGpr(x, d, BitNot(BitOr(s, t)))
          [] f = \h2A -> SetGpr(x, d, Bool(SLt(s, t)))
          [] f = \h2B -> SetGpr(x, d, Bool(ULt(s, t)))
          [] OTHER -> x

\* A COP0 group whose RFE pops the stack and clears the bits 5:4 it leaves.
ExecCop0_RfeClears(x) ==
    LET i == x.cpu.instruction
    IN  CASE rs(i) = \h00 -> SetGpr(x, rt(i), Cop0Read(x.cpu.cop0, rd(i)))
          [] rs(i) = \h04 ->
                [x EXCEPT !.cpu.cop0 = Cop0Write(@, rd(i), x.cpu.gpr[rt(i)])]
          [] OTHER ->
                IF funct(i) = \h10
                THEN [x EXCEPT !.cpu.cop0.SR =
                          BitOr(BitAnd(@, W(\hFFFF, \hFFC0)),
                                Shr(BitAnd(@, W(\h0000, \h003C)), 2))]
                ELSE x

\* case InstructionGroup::COP0: switch (instruction.rs)
\* A COP0 group that takes every word other than MFC0 and MTC0 for RFE.
ExecCop0_AlwaysRfe(x) ==
    LET i == x.cpu.instruction
    IN  CASE rs(i) = \h00 -> SetGpr(x, rt(i), Cop0Read(x.cpu.cop0, rd(i)))
          [] rs(i) = \h04 ->
                [x EXCEPT !.cpu.cop0 = Cop0Write(@, rd(i), x.cpu.gpr[rt(i)])]
          [] OTHER ->
                [x EXCEPT !.cpu.cop0.SR =
                    BitOr(BitAnd(@, W(\hFFFF, \hFFF0)),
                          Shr(BitAnd(@, W(\h0000, \h003C)), 2))]

ExecCop0(x) ==
    LET i == x.cpu.instruction
    IN  CASE rs(i) = \h00 -> SetGpr(x, rt(i), Cop0Read(x.cpu.cop0, rd(i)))
          [] rs(i) = \h04 ->
                [x EXCEPT !.cpu.cop0 = Cop0Write(@, rd(i), x.cpu.gpr[rt(i)])]
          [] OTHER ->
                IF funct(i) = \h10
                THEN [x EXCEPT !.cpu.cop0.SR =
                          BitOr(BitAnd(@, W(\hFFFF, \hFFF0)),
                                Shr(BitAnd(@, W(\h0000, \h003C)), 2))]
                ELSE x

\* case Instruction::LWL / LWR: the merge of the aligned word into gpr[rt].
MergeLeft(old, data, k) ==
    CASE k = 0 -> BitOr(BitAnd(old, W(\h00FF, \hFFFF)), Shl(data, 24))
      [] k = 1 -> BitOr(BitAnd(old, W(\h0000, \hFFFF)), Shl(data, 16))
      [] k = 2 -> BitOr(BitAnd(old, W(\h0000, \h00FF)), Shl(data, 8))
      [] k = 3 -> BitOr(BitAnd(old, W(\h0000, \h0000)), Shl(data, 0))

\* An LWR that loads the whole aligned word at every alignment.
MergeRight_WholeWord(old, data, k) == data

MergeRight(old, data, k) ==
    CASE k = 0 -> data
      [] k = 1 -> BitOr(BitAnd(old, W(\hFF00, \h0000)), Shr(data, 8))
      [] k = 2 -> BitOr(BitAnd(old, W(\hFFFF, \h0000)), Shr(data, 16))
      [] k = 3 -> BitOr(BitAnd(old, W(\hFFFF, \hFF00)), Shr(data, 24))

\* case Instruction::SWL / SWR: the merge of gpr[rt] into the aligned word.
StoreLeft(data, reg, k) ==
    CASE k = 0 -> BitOr(BitAnd(data, W(\hFFFF, \hFF00)), Shr(reg, 24))
      [] k = 1 -> BitOr(BitAnd(data, W(\hFFFF, \h0000)), Shr(reg, 16))
      [] k = 2 -> BitOr(BitAnd(data, W(\hFF00, \h0000)), Shr(reg, 8))
      [] k = 3 -> BitOr(BitAnd(data, W(\h0000, \h0000)), Shr(reg, 0))

\* An SWR that stores the whole register at every alignment.
StoreRight_WholeWord(data, reg, k) == reg

StoreRight(data, reg, k) ==
    CASE k = 0 -> BitOr(BitAnd(data, W(\h0000, \h0000)), Shl(reg, 0))
      [] k = 1 -> BitOr(BitAnd(data, W(\h0000, \h00FF)), Shl(reg, 8))
      [] k = 2 -> BitOr(BitAnd(data, W(\h0000, \hFFFF)), Shl(reg, 16))
      [] k = 3 -> BitOr(BitAnd(data, W(\h00FF, \hFFFF)), Shl(reg, 24))

AlignedWord(va) == W(va[1], va[2] - (va[2] % 4))

\* The loads and stores, opcodes 0x20..0x2E; u is the byte an out-of-array
\* read yields.
ExecMemory(x, u) ==
    LET i == x.cpu.instruction
        o == op(i)
        t == rt(i)
        va == vaddr(x.cpu)
        reg == x.cpu.gpr[t]
        word == memory_access(x.bus, 4, AlignedWord(va), u)
        xr == Accessed(x, "read", 4, AlignedWord(va))
    IN  CASE o = \h20 -> LoadGpr(x, t, 1, TRUE, va, u)
          [] o = \h21 ->
                IF Misaligned(va, 2) THEN Raise(x, AdEL, va)
                ELSE LoadGpr(x, t, 2, TRUE, va, u)
          [] o = \h22 -> SetGpr(xr, t, MergeLeft(reg, word, va[2] % 4))
          [] o = \h23 ->
                IF Misaligned(va, 4) THEN Raise(x, AdEL, va)
                ELSE LoadGpr(x, t, 4, FALSE, va, u)
          [] o = \h24 -> LoadGpr(x, t, 1, FALSE, va, u)
          [] o = \h25 ->
                IF Misaligned(va, 2) THEN Raise(x, AdEL, va)
                ELSE LoadGpr(x, t, 2, FALSE, va, u)
          [] o = \h26 -> SetGpr(xr, t, MergeRight(reg, word, va[2] % 4))
          [] o = \h28 -> Store(x, 1, va, BitAnd(reg, W(\h0000, \h00FF)))
          [] o = \h29 ->
                IF Misaligned(va, 2) THEN Raise(x, AdES, va)
                ELSE Store(x, 2, va, BitAnd(reg, W(\h0000, \hFFFF)))
          [] o = \h2A ->
                Store(xr, 4, AlignedWord(va), StoreLeft(word, reg, va[2] % 4))
          [] o = \h2B ->
                IF IsC(x.cpu.cop0.SR) THEN x
                ELSE IF Misaligned(va, 4) THEN Raise(x, AdES, W0)
                ELSE Store(x, 4, va, reg)
          [] o = \h2E ->
                Store(xr, 4, AlignedWord(va), StoreRight(word, reg, va[2] % 4))
          [] OTHER -> x

\* A jump target that takes all of its bits from the 26-bit field.
JumpTarget_NoRegion(pc, i) == Shl(target(i), 2)

\* (target() << 2) | (pc & 0xF0000000)
JumpTarget(pc, i) == BitOr(Shl(target(i), 2), BitAnd(pc, W(\hF000, \h0000)))

\* switch (instruction.op)
Execute(x, u) ==
    LET i == x.cpu.instruction
        c == x.cpu
        g == x.cpu.gpr
        o == op(i)
        s == g[rs(i)]
        t == rt(i)
        imm == immediate(i)
        jump == JumpTarget(c.pc, i)
    IN  CASE o = \h00 -> ExecSpecial(x)
          [] o = \h01 ->
                LET x1 == IF BitAndH(t, \h10) # 0 THEN SetGpr(x, 31, c.next_pc) ELSE x
                    v == BitXor(x1.cpu.gpr[rs(i)], Shl(W(0, t), 31))
                IN  [x1 EXCEPT !.cpu = branch_if(@, Negative(v))]
          [] o = \h02 -> [x EXCEPT !.cpu.next_pc = jump]
          [] o = \h03 -> [SetGpr(x, 31, c.next_pc) EXCEPT !.cpu.next_pc = jump]
          [] o = \h04 -> [x EXCEPT !.cpu = branch_if(@, s = g[t])]
          [] o = \h05 -> [x EXCEPT !.cpu = branch_if(@, s # g[t])]
          [] o = \h06 -> [x EXCEPT !.cpu = branch_if(@, Negative(s) \/ s = W0)]
          [] o = \h07 -> [x EXCEPT !.cpu = branch_if(@, ~Negative(s) /\ s # W0)]
          [] o = \h08 ->
                LET se == SignExtendHalfword(imm)
                    result == Add(se, s)
                IN  IF AddOverflows(s, se, result)
                    THEN Raise(x, Ovf, W0)
                    ELSE SetGpr(x, t, result)
          [] o = \h09 -> SetGpr(x, t, Add(s, SignExtendHalfword(imm)))
          [] o = \h0A -> SetGpr(x, t, Bool(SLt(s, SignExtendHalfword(imm))))
          [] o = \h0B -> SetGpr(x, t, Bool(ULt(s, SignExtendHalfword(imm))))
          [] o = \h0C -> SetGpr(x, t, BitAnd(s, ZeroExtend(imm)))
          [] o = \h0D -> SetGpr(x, t, BitOr(s, ZeroExtend(imm)))
          [] o = \h0E -> SetGpr(x, t, BitXor(s, ZeroExtend(imm)))
          [] o = \h0F -> SetGpr(x, t, W(imm, 0))
          [] o = \h10 -> ExecCop0(x)
          [] o >= \h20 /\ o <= \h2E -> ExecMemory(x, u)
          [] OTHER -> x

\* if ((pc & 0x00000003) != 0) trap(Exception::AdEL);
EntryCheck(x) == IF Misaligned(x.cpu.pc, 4) THEN Raise(x, AdEL, W0) ELSE x

\* instruction.word = bus.memory_access<Word>(pc);
Fetched(x, w) == [Accessed(x, "fetch", 4, x.cpu.pc) EXCEPT !.cpu.instruction = w]

Fetch(x, u) == Fetched(x, memory_access(x.bus, 4, x.cpu.pc, u))

\* The context with the fetched word noted and pc, next_pc advanced.
Advanced(x) == [x EXCEPT !.word = x.cpu.instruction, !.cpu = Advance(@)]

\* CPU::step on the CPU c and the bus b: the context when step returns.
step(c, b, u) ==
    [Fetch(Execute(Advanced(Fetch(EntryCheck(
        [cpu |-> c, bus |-> b, traps |-> <<>>, acc |-> <<>>, word |-> W0]), u)), u), u)
     EXCEPT !.cpu = ClearZero(@)]

\* CPU::reset on the bus b.
reset(b, u) ==
    [gpr |-> [r \in 0..31 |-> W0],
     cop0 |-> [BadA |-> W0, SR |-> W0, Cause |-> W0, EPC |-> W0, unused |-> W0],
     hi |-> W0, lo |-> W0,
     pc |-> RESET_VECTOR, next_pc |-> Add(RESET_VECTOR, W4),
     instruction |-> memory_access(b, 4, RESET_VECTOR, u)]

----------------------------------------------------------------------------
(* The machine: the host loads a BIOS image, resets the CPU and calls      *)
(* step() in a loop (Emulator::run).                                       *)

VARIABLES cpu, bus, log

vars == <<cpu, bus, log>>

\* The number of free instruction words at the start of the BIOS image; the
\* rest of the image is zero.
ProgLen == 3

\* step() is called at most this often.
MaxSteps == ProgLen + 1

\* The bytes an out-of-array read may yield.
ArbitraryBytes == {0, 255}

\* Instruction words, by format.
RType(s, t, d, sh, f) == W(s * 32 + t, d * 2048 + sh * 64 + f)

IType(o, s, t, imm) == W(o * 1024 + s * 32 + t, imm)

JType(o, word_index) == W(o * 1024 + \h03F0, word_index)

\* Control flow and traps, on registers $0, $1 and $31.  J and JAL go to the
\* word at index 3 of the image region.
ControlInstrs ==
    { IType(\h09, 0, 0, 1),          \* ADDIU $0, $0, 1
      IType(\h09, 0, 1, \hFF33),     \* ADDIU $1, $0, -205
      IType(\h0F, 0, 1, \h8000),     \* LUI   $1, 0x8000
      IType(\h08, 1, 1, \hFFFF),     \* ADDI  $1, $1, -1
      RType(1, 0, 0, 0, \h08),       \* JR    $1
      RType(0, 0, 0, 0, \h09),       \* JALR  $0, $0
      JType(\h02, 3),                \* J     0x0FC0000C
      JType(\h03, 3),                \* JAL   0x0FC0000C
      IType(\h04, 0, 0, 2),          \* BEQ   $0, $0, +2
      IType(\h05, 1, 0, 2),          \* BNE   $1, $0, +2
      RType(0, 0, 0, 0, \h0C),       \* SYSCALL
      RType(0, 0, 0, 0, \h0D),       \* BREAK
      W(\h10 * 1024 + 4 * 32 + 1, 12 * 2048), \* MTC0 $1, SR
      W(\h10 * 1024 + 4 * 32 + 1, 13 * 2048), \* MTC0 $1, Cause
      IType(\h23, 0, 1, 2),          \* LW    $1, 2($0)
      IType(\h29, 0, 1, 1) }         \* SH    $1, 1($0)

\* Arithmetic with and without overflow, on registers $1, $2 and $3.
ArithInstrs ==
    { IType(\h0F, 0, 1, \h8000),     \* LUI   $1, 0x8000
      IType(\h0F, 0, 1, \h7FFF),     \* LUI   $1, 0x7FFF
      IType(\h0D, 1, 1, \hFFFF),     \* ORI   $1, $1, 0xFFFF
      IType(\h09, 0, 2, \hFFFF),     \* ADDIU $2, $0, -1
      IType(\h09, 0, 2, 1),          \* ADDIU $2, $0, 1
      RType(1, 2, 3, 0, \h20),       \* ADD   $3, $1, $2
      RType(1, 1, 3, 0, \h20),       \* ADD   $3, $1, $1
      RType(1, 1, 3, 0, \h21),       \* ADDU  $3, $1, $1
      RType(1, 2, 3, 0, \h22),       \* SUB   $3, $1, $2
      RType(2, 1, 3, 0, \h22),       \* SUB   $3, $2, $1
      RType(1, 2, 3, 0, \h23),       \* SUBU  $3, $1, $2
      IType(\h08, 1, 3, \hFFFF),     \* ADDI  $3, $1, -1
      IType(\h08, 1, 3, 1),          \* ADDI  $3, $1, 1
      IType(\h09, 1, 3, \hFFFF) }    \* ADDIU $3, $1, -1

\* Loads, aligned and not, from RAM and from the BIOS image, on registers $1
\* (base), $2 (target) and $3.
LoadInstrs ==
    { IType(\h09, 0, 2, 5),          \* ADDIU $2, $0, 5
      IType(\h0F, 0, 1, \hBFC0),     \* LUI   $1, 0xBFC0
      IType(\h23, 1, 2, 0),          \* LW    $2, 0($1)
      IType(\h23, 1, 2, 2),          \* LW    $2, 2($1)
      IType(\h21, 1, 2, 1),          \* LH    $2, 1($1)
      IType(\h21, 1, 2, 2),          \* LH    $2, 2($1)
      IType(\h25, 1, 2, 3),          \* LHU   $2, 3($1)
      IType(\h25, 1, 2, 0),          \* LHU   $2, 0($1)
      IType(\h20, 1, 2, 1),          \* LB    $2, 1($1)
      IType(\h24, 1, 2, 3),          \* LBU   $2, 3($1)
      RType(2, 0, 3, 0, \h25) }      \* OR    $3, $2, $0

\* Stores of every width, aligned and not, to RAM, the scratchpad, the BIOS
\* range and GP0, with the cache isolated and not, on registers $1 (base and
\* SR value) and $2 (value).
StoreInstrs ==
    { IType(\h0F, 0, 1, \h0001),     \* LUI   $1, 0x0001
      W(\h10 * 1024 + 4 * 32 + 1, 12 * 2048), \* MTC0 $1, SR
      IType(\h09, 0, 2, \hFF80),     \* ADDIU $2, $0, -128
      IType(\h0F, 0, 2, \h6800),     \* LUI   $2, 0x6800
      IType(\h0F, 0, 1, \h1F80),     \* LUI   $1, 0x1F80
      IType(\h0F, 0, 1, \hBFC0),     \* LUI   $1, 0xBFC0
      IType(\h28, 0, 2, 5),          \* SB    $2, 5($0)
      IType(\h28, 1, 2, 3),          \* SB    $2, 3($1)
      IType(\h29, 0, 2, 5),          \* SH    $2, 5($0)
      IType(\h29, 1, 2, 2),          \* SH    $2, 2($1)
      IType(\h2B, 0, 2, 6),          \* SW    $2, 6($0)
      IType(\h2B, 1, 2, 0),          \* SW    $2, 0($1)
      IType(\h2B, 0, 1, 4),          \* SW    $1, 4($0)
      IType(\h2B, 0, 1, 6),          \* SW    $1, 6($0)
      IType(\h2B, 1, 2, \h1810) }    \* SW    $2, 0x1810($1)

\* Divisions, signed and unsigned, of positive, negative and zero operands,
\* on registers $1 and $2.
DivInstrs ==
    { IType(\h0F, 0, 1, \h8000),     \* LUI   $1, 0x8000
      IType(\h09, 0, 1, \hFFF9),     \* ADDIU $1, $0, -7
      IType(\h09, 0, 1, 7),          \* ADDIU $1, $0, 7
      IType(\h09, 0, 2, \hFFFF),     \* ADDIU $2, $0, -1
      IType(\h09, 0, 2, 2),          \* ADDIU $2, $0, 2
      IType(\h09, 0, 2, \hFFFE),     \* ADDIU $2, $0, -2
      RType(1, 2, 0, 0, \h1A),       \* DIV   $1, $2
      RType(2, 1, 0, 0, \h1A),       \* DIV   $2, $1
      RType(1, 2, 0, 0, \h1B),       \* DIVU  $1, $2
      RType(2, 1, 0, 0, \h1B) }      \* DIVU  $2, $1

\* The BCOND group with several values of rt, and the jumps that link, on
\* registers $1, $2 and $31.  The branches go two words ahead of their delay
\* slot.
BranchInstrs ==
    { IType(\h09, 0, 1, \hFFFF),     \* ADDIU $1, $0, -1
      IType(\h09, 0, 1, 1),          \* ADDIU $1, $0, 1
      IType(\h01, 1, \h00, 2),       \* BLTZ   $1, +2
      IType(\h01, 1, \h01, 2),       \* BGEZ   $1, +2
      IType(\h01, 1, \h10, 2),       \* BLTZAL $1, +2
      IType(\h01, 1, \h11, 2),       \* BGEZAL $1, +2
      IType(\h01, 1, \h0E, 2),       \* BCOND  $1, +2 with rt = 0x0E
      IType(\h01, 1, \h1F, 2),       \* BCOND  $1, +2 with rt = 0x1F
      IType(\h01, 31, \h10, 2),      \* BLTZAL $31, +2
      JType(\h02, 3),                \* J     0x0FC0000C
      JType(\h03, 3),                \* JAL   0x0FC0000C
      RType(1, 0, 2, 0, \h09),       \* JALR  $2, $1
      RType(2, 0, 31, 0, \h09) }     \* JALR  $31, $2

\* A store followed by a load at the same address, after ProgLen - 1 words
\* that set the base register $1, the value register $2 and SR.
SetupInstrs ==
    { IType(\h0F, 0, 1, \h0001),     \* LUI   $1, 0x0001
      W(\h10 * 1024 + 4 * 32 + 1, 12 * 2048), \* MTC0 $1, SR
      IType(\h0F, 0, 1, \h1F80),     \* LUI   $1, 0x1F80
      IType(\h0F, 0, 2, \h8765),     \* LUI   $2, 0x8765
      IType(\h0D, 2, 2, \h43A1),     \* ORI   $2, $2, 0x43A1
      IType(\h09, 0, 2, \hFF80) }    \* ADDIU $2, $0, -128

StoreWords ==
    { IType(\h28, 1, 2, 5),          \* SB    $2, 5($1)
      IType(\h29, 1, 2, 6),          \* SH    $2, 6($1)
      IType(\h2B, 1, 2, 4),          \* SW    $2, 4($1)
      IType(\h2B, 1, 1, 4) }         \* SW    $1, 4($1)

LoadWords ==
    { IType(\h20, 1, 3, 5),          \* LB    $3, 5($1)
      IType(\h24, 1, 3, 5),          \* LBU   $3, 5($1)
      IType(\h21, 1, 3, 6),          \* LH    $3, 6($1)
      IType(\h25, 1, 3, 6),          \* LHU   $3, 6($1)
      IType(\h23, 1, 3, 4) }         \* LW    $3, 4($1)

\* LWL and LWR at every alignment of the BIOS image, on registers $1 (base)
\* and $2 (target).
UnalignedInstrs ==
    { IType(\h0F, 0, 1, \hBFC0),     \* LUI   $1, 0xBFC0
      IType(\h09, 0, 2, \hFFFF),     \* ADDIU $2, $0, -1
      IType(\h26, 1, 2, 0),          \* LWR   $2, 0($1)
      IType(\h26, 1, 2, 1),          \* LWR   $2, 1($1)
      IType(\h26, 1, 2, 2),          \* LWR   $2, 2($1)
      IType(\h26, 1, 2, 3),          \* LWR   $2, 3($1)
      IType(\h22, 1, 2, 0),          \* LWL   $2, 0($1)
      IType(\h22, 1, 2, 3),          \* LWL   $2, 3($1)
      IType(\h22, 1, 2, 4),          \* LWL   $2, 4($1)
      IType(\h22, 1, 2, 5),          \* LWL   $2, 5($1)
      IType(\h22, 1, 2, 6) }         \* LWL   $2, 6($1)

\* The BIOS image that starts with the words of prog.
Image(prog) ==
    LET n == Len(prog)
        nonzero == {j \in 0..(4 * n - 1) : Bytes(prog[(j \div 4) + 1])[(j % 4) + 1] # 0}
    IN  [j \in nonzero |-> Bytes(prog[(j \div 4) + 1])[(j % 4) + 1]]

InitWith(instrs) ==
    \E prog \in [1..ProgLen -> instrs] :
        /\ bus = BusInit(Image(prog))
        /\ cpu = reset(BusInit(Image(prog)), 0)
        /\ log = <<>>

Init == InitWith(ControlInstrs)

\* One call of step() from Emulator::run.  The log keeps, for each call, the
\* state it started from and what it did.
OobRead(x) == \E k \in 1..Len(x.acc) : x.acc[k].oob /\ x.acc[k].kind # "write"

\* step() returns in the context x; u is the byte out-of-array reads yielded,
\* and is 0 when there were none.
Returned(x, u) ==
    /\ u # 0 => OobRead(x)
    /\ cpu' = x.cpu
    /\ bus' = x.bus
    /\ log' = Append(log, [cpu |-> cpu, bus |-> bus, word |-> x.word,
                            traps |-> x.traps, acc |-> x.acc])

Step ==
    /\ Len(log) < MaxSteps
    /\ \E u \in ArbitraryBytes : Returned(step(cpu, bus, u), u)

Next == Step

Spec == Init /\ [][Next]_vars

InitArith == InitWith(ArithInstrs)

SpecArith == InitArith /\ [][Next]_vars

InitLoad == InitWith(LoadInstrs)

SpecLoad == InitLoad /\ [][Next]_vars

SpecStore == InitWith(StoreInstrs) /\ [][Next]_vars

SpecDiv == InitWith(DivInstrs) /\ [][Next]_vars

SpecBranch == InitWith(BranchInstrs) /\ [][Next]_vars

SpecUnaligned == InitWith(UnalignedInstrs) /\ [][Next]_vars

\* COP0 moves on every register with storage and on two without, and words
\* that no case of CPU::step decodes (there __debugbreak() stops a debugger
\* and the step goes on).
CoprocessorInstrs ==
    { IType(\h09, 0, 1, \hFF33),     \* ADDIU $1, $0, -205
      W(\h10 * 1024 + 4 * 32 + 1, 8 * 2048),  \* MTC0 $1, BadA
      W(\h10 * 1024 + 4 * 32 + 1, 12 * 2048), \* MTC0 $1, SR
      W(\h10 * 1024 + 4 * 32 + 1, 13 * 2048), \* MTC0 $1, Cause
      W(\h10 * 1024 + 4 * 32 + 1, 14 * 2048), \* MTC0 $1, EPC
      W(\h10 * 1024 + 4 * 32 + 1, 9 * 2048),  \* MTC0 $1, $9
      W(\h10 * 1024 + 2, 8 * 2048),  \* MFC0 $2, BadA
      W(\h10 * 1024 + 2, 12 * 2048), \* MFC0 $2, SR
      W(\h10 * 1024 + 2, 13 * 2048), \* MFC0 $2, Cause
      W(\h10 * 1024 + 2, 14 * 2048), \* MFC0 $2, EPC
      W(\h10 * 1024 + 2, 9 * 2048),  \* MFC0 $2, $9
      IType(\h3F, 1, 2, \h1234),     \* opcode 0x3F
      RType(1, 1, 2, 0, \h3F),       \* SPECIAL, funct 0x3F
      W(\h10 * 1024 + 16 * 32, 1),   \* COP0, rs = 0x10, funct 0x01
      W(\h10 * 1024 + 2 * 32 + 2, 12 * 2048) } \* COP0, rs = 0x02 (CFC0 $2, $12)

SpecCoprocessor == InitWith(CoprocessorInstrs) /\ [][Next]_vars

\* Taken branches of every opcode, with immediates on both sides of the
\* values whose product by 4 fits 16 bits.
BranchRangeInstrs ==
    { IType(\h09, 0, 1, 1),          \* ADDIU $1, $0, 1
      IType(\h04, 0, 0, 2),          \* BEQ   $0, $0, +2
      IType(\h04, 0, 0, \h1FFF),     \* BEQ   $0, $0, +8191
      IType(\h04, 0, 0, \h2000),     \* BEQ   $0, $0, +8192
      IType(\h04, 0, 0, \h8000),     \* BEQ   $0, $0, -32768
      IType(\h05, 1, 0, \hDFFF),     \* BNE   $1, $0, -8193
      IType(\h06, 0, 0, \hE000),     \* BLEZ  $0, -8192
      IType(\h07, 1, 0, \h7FFF),     \* BGTZ  $1, +32767
      IType(\h01, 0, 1, \hFFFF),     \* BGEZ  $0, -1
      IType(\h01, 0, 1, \h4000) }    \* BGEZ  $0, +16384

SpecBranchRange == InitWith(BranchRangeInstrs) /\ [][Next]_vars

\* Loads, stores and a jump at the ends of the backing arrays: the last
\* word of the scratchpad array and the word after it, and an address two
\* bytes before the end of RAM.
ArrayEndInstrs ==
    { IType(\h0F, 0, 1, \h1F80),     \* LUI   $1, 0x1F80
      IType(\h23, 1, 2, \h03FC),     \* LW    $2, 0x3FC($1)
      IType(\h23, 1, 2, \h0400),     \* LW    $2, 0x400($1)
      IType(\h28, 1, 1, \h0FFF),     \* SB    $1, 0xFFF($1)
      IType(\h0F, 0, 1, \h0020),     \* LUI   $1, 0x0020
      IType(\h09, 1, 1, \hFFFE),     \* ADDIU $1, $1, -2
      IType(\h21, 1, 2, 0),          \* LH    $2, 0($1)
      RType(1, 0, 0, 0, \h08) }      \* JR    $1

SpecArrayEnd == InitWith(ArrayEndInstrs) /\ [][Next]_vars

\* One instruction for each exception code, after words that set $1, hi and
\* BadA.
TrapInstrs ==
    { IType(\h09, 0, 1, \hFF33),     \* ADDIU $1, $0, -205
      IType(\h0F, 0, 1, \h7FFF),     \* LUI   $1, 0x7FFF
      W(\h10 * 1024 + 4 * 32 + 1, 8 * 2048), \* MTC0 $1, BadA
      RType(1, 0, 0, 0, \h11),       \* MTHI  $1
      IType(\h23, 0, 2, 2),          \* LW    $2, 2($0)
      IType(\h29, 0, 1, 1),          \* SH    $1, 1($0)
      IType(\h2B, 0, 1, 6),          \* SW    $1, 6($0)
      RType(0, 0, 0, 0, \h0C),       \* SYSCALL
      RType(0, 0, 0, 0, \h0D),       \* BREAK
      RType(1, 1, 3, 0, \h20) }      \* ADD   $3, $1, $1

SpecTrap == InitWith(TrapInstrs) /\ [][Next]_vars

\* Linking jumps and branches whose link register is also their operand,
\* and the same with another operand.
LinkInstrs ==
    { IType(\h0F, 0, 1, \hBFC0),     \* LUI    $1, 0xBFC0
      IType(\h09, 0, 31, 1),         \* ADDIU  $31, $0, 1
      RType(1, 0, 1, 0, \h09),       \* JALR   $1, $1
      RType(1, 0, 31, 0, \h09),      \* JALR   $31, $1
      IType(\h01, 31, \h10, 2),      \* BLTZAL $31, +2
      IType(\h01, 31, \h11, 2),      \* BGEZAL $31, +2
      IType(\h01, 1, \h10, 2) }      \* BLTZAL $1, +2

SpecLink == InitWith(LinkInstrs) /\ [][Next]_vars

\* RFE, with rs = 0x10 and funct = 0x10.
RFE_WORD == W(\h4200, \h0010)

\* Words that set SR, trap, and return from the trap.
RfeInstrs ==
    { IType(\h09, 0, 1, \h0039),     \* ADDIU $1, $0, 0x39
      IType(\h09, 0, 1, \h0015),     \* ADDIU $1, $0, 0x15
      IType(\h09, 0, 1, \hFFFF),     \* ADDIU $1, $0, -1
      IType(\h09, 0, 1, \hFF99),     \* ADDIU $1, $0, -103
      IType(\h0F, 0, 1, \hABCD),     \* LUI   $1, 0xABCD
      IType(\h0D, 1, 1, \h0039),     \* ORI   $1, $1, 0x39
      W(\h10 * 1024 + 4 * 32 + 1, 12 * 2048), \* MTC0 $1, SR
      RType(0, 0, 0, 0, \h0C),       \* SYSCALL
      RType(0, 0, 0, 0, \h0D),       \* BREAK
      IType(\h23, 0, 2, 2),          \* LW    $2, 2($0)
      RFE_WORD }                     \* RFE

\* The machine after the BIOS is loaded and an exception handler that
\* starts with RFE is in RAM at the exception vector 0x80000080.
InitHandler ==
    \E prog \in [1..ProgLen -> RfeInstrs] :
        /\ bus = [BusInit(Image(prog)) EXCEPT !.ram = CopyTo(<<>>, \h80, 4, RFE_WORD)]
        /\ cpu = reset(BusInit(Image(prog)), 0)
        /\ log = <<>>

SpecRfe == InitHandler /\ [][Next]_vars

\* An unaligned store followed by an unaligned load: the program sets the
\* base $1 and the value $2, fills the two words at the base with SW, stores
\* $2 with SWR at offset a and SWL at offset a + 3, and loads register r with
\* LWR at offset a and LWL at offset high.
PairBases ==
    { IType(\h0F, 0, 1, \hA012),     \* LUI   $1, 0xA012
      IType(\h09, 0, 1, \h4320) }    \* ADDIU $1, $0, 0x4320

PairValues ==
    { IType(\h09, 1, 2, \h7BCD),     \* ADDIU $2, $1, 0x7BCD
      IType(\h09, 1, 2, 1) }         \* ADDIU $2, $1, 1

PairProgram(setbase, setvalue, a, r, high) ==
    << setbase, setvalue,
       IType(\h2B, 1, 1, 0),          \* SW    $1, 0($1)
       IType(\h2B, 1, 1, 4),          \* SW    $1, 4($1)
       IType(\h2E, 1, 2, a),          \* SWR   $2, a($1)
       IType(\h2A, 1, 2, a + 3),      \* SWL   $2, a+3($1)
       IType(\h26, 1, r, a),          \* LWR   $r, a($1)
       IType(\h22, 1, r, high) >>     \* LWL   $r, high($1)

\* At most this many calls of step(): the words of the program.
MaxPairSteps == 8

InitPair ==
    \E setbase \in PairBases, setvalue \in PairValues, a \in 0..3, r \in {0, 1, 3} :
        \E high \in {a + 3, 2} :
            /\ bus = BusInit(Image(PairProgram(setbase, setvalue, a, r, high)))
            /\ cpu = reset(BusInit(Image(PairProgram(setbase, setvalue, a, r, high))), 0)
            /\ log = <<>>

PairStep ==
    /\ Len(log) < MaxPairSteps
    /\ \E u \in ArbitraryBytes : Returned(step(cpu, bus, u), u)

NextPair == PairStep

SpecPair == InitPair /\ [][NextPair]_vars

InitRoundTrip ==
    \E setup \in [1..(ProgLen - 1) -> SetupInstrs], st \in StoreWords, ld \in LoadWords :
        /\ bus = BusInit(Image(setup \o <<st, ld>>))
        /\ cpu = reset(BusInit(Image(setup \o <<st, ld>>)), 0)
        /\ log = <<>>

SpecRoundTrip == InitRoundTrip /\ [][Next]_vars

----------------------------------------------------------------------------
(* The bus on its own: reads and writes of every width, as the CPU and the *)
(* host (psemu.cpp) issue them, at addresses of every region and segment.  *)

\* The bus is accessed at most this often.
MaxAccesses == 2

BusAddresses ==
    { W(\h0000, \h0004),             \* RAM
      W(\hA000, \h0004),             \* RAM through KSEG1
      W(\h0020, \h0000),             \* the first address after RAM
      W(\h9F80, \h0010),             \* scratchpad through KSEG0
      W(\h1F80, \h0400),             \* the first address after the scratchpad
      W(\h1F80, \h1810),             \* GP0
      W(\h1F80, \h1814),             \* GP1 / GPUSTAT
      W(\h1FC0, \h0000),             \* BIOS
      W(\hBFC0, \h0001),             \* BIOS through KSEG1
      W(\hFFFE, \h0130) }            \* cache control, in KSEG2

BusData == { W(\h6812, \h3456), W(\h0001, \h0002) }

\* The log keeps, for each access, the bus it started from and what it did.
BusRead ==
    /\ Len(log) < MaxAccesses
    /\ \E n \in {1, 2, 4}, v \in BusAddresses, u \in ArbitraryBytes :
          /\ u # 0 => AccessOob(bus, n, v)
          /\ log' = Append(log, [kind |-> "read", size |-> n, vaddr |-> v, u |-> u,
                                  data |-> W0, value |-> memory_access(bus, n, v, u),
                                  bus |-> bus])
    /\ UNCHANGED <<cpu, bus>>

BusWrite ==
    /\ Len(log) < MaxAccesses
    /\ \E n \in {1, 2, 4}, v \in BusAddresses, data \in BusData :
          /\ bus' = memory_access_write(bus, n, v, Truncate(data, n))
          /\ log' = Append(log, [kind |-> "write", size |-> n, vaddr |-> v, u |-> 0,
                                  data |-> Truncate(data, n), value |-> W0,
                                  bus |-> bus])
    /\ UNCHANGED cpu

NextBus == BusRead \/ BusWrite

InitBus ==
    /\ bus = BusInit(Image([k \in 1..ProgLen |-> W(\h1234 + k, \h5678)]))
    /\ cpu = reset(BusInit(Image([k \in 1..ProgLen |-> W(\h1234 + k, \h5678)])), 0)
    /\ log = <<>>

SpecBus == InitBus /\ [][NextBus]_vars

----------------------------------------------------------------------------
(* The GP0 port (0x1F801810) on the bus: the packets a program sends.     *)

\* At most this many packets are sent.
MaxPackets == 10

GP0_PORT == W(\h1F80, \h1810)

GPUSTAT_PORT == W(\h1F80, \h1814)

\* GP0(0x68) with the color 0x00FF80CC; as data, the pixels 0x80CC, 0x68FF.
DOT == W(\h68FF, \h80CC)

\* Command words: the three commands of GPU::gp0 and one it does not know.
CommandWords == { DOT, W(\hA000, 0), W(\hC000, 0), W(\h0100, 0) }

\* The position of a dot, y << 16 | x: (2, 1), (-1, 1) and (-1, 0).
PositionWords == { W(1, 2), W(1, \hFFFF), W(0, \hFFFF) }

\* The destination of a transfer, y << 16 | x: (0, 0), (2, 1), (1023, 1).
DestinationWords == { W(0, 0), W(1, 2), W(1, \h03FF) }

\* The size of a transfer, height << 16 | width: 2x1, 2x2, 1x1 and, for the
\* raw size 0x0, 1024x512.
SizeWords == { W(1, 2), W(2, 2), W(1, 1), W(0, 0) }

\* Data words of a transfer.
DataWords == { W(\hBBBB, \hAAAA), DOT }

\* The packets sent to the port in the state it is in.
Packets(g) ==
    CASE g.gp0_state = "AwaitingCommand" -> CommandWords
      [] g.gp0_state = "ReceivingParameters" /\ g.func = "draw_rect" -> PositionWords
      [] g.gp0_state = "ReceivingParameters" /\ g.params = <<>> -> DestinationWords
      [] g.gp0_state = "ReceivingParameters" -> SizeWords
      [] OTHER -> DataWords

\* A word write to GP0; the log keeps the packet and the bus it met.
SendPacket(packet) ==
    /\ bus' = memory_access_write(bus, 4, GP0_PORT, packet)
    /\ log' = Append(log, [kind |-> "gp0", vaddr |-> GP0_PORT, packet |-> packet,
                            value |-> W0, bus |-> bus])
    /\ UNCHANGED cpu

Gp0Write ==
    /\ Len(log) < MaxPackets
    /\ \E packet \in Packets(bus.gpu) : SendPacket(packet)

NextGpu == Gp0Write

SpecGpu == InitBus /\ [][NextGpu]_vars

\* The same port with the word reads of GPUREAD (0x1F801810) and GPUSTAT
\* (0x1F801814) between the packets; at most this many accesses.
MaxPortAccesses == 7

PortWrite ==
    /\ Len(log) < MaxPortAccesses
    /\ \E packet \in Packets(bus.gpu) : SendPacket(packet)

PortRead ==
    /\ Len(log) < MaxPortAccesses
    /\ \E v \in {GP0_PORT, GPUSTAT_PORT} :
          log' = Append(log, [kind |-> "read", vaddr |-> v, packet |-> W0,
                              value |-> memory_access(bus, 4, v, 0), bus |-> bus])
    /\ UNCHANGED <<cpu, bus>>

NextGpuPorts == PortWrite \/ PortRead

SpecGpuPorts == InitBus /\ [][NextGpuPorts]_vars

\* The two ports written in any order: GP0 (0x1F801810) takes the packets
\* of its state, GP1 (0x1F801814) takes GP1(0x00) or the word of a dot.
Gp1Words == { W0, DOT }

Gp1Write ==
    /\ Len(log) < MaxPortAccesses
    /\ \E packet \in Gp1Words :
          /\ bus' = memory_access_write(bus, 4, GPUSTAT_PORT, packet)
          /\ log' = Append(log, [kind |-> "gp1", vaddr |-> GPUSTAT_PORT,
                                  packet |-> packet, value |-> W0, bus |-> bus])
    /\ UNCHANGED cpu

NextGpuControl == PortWrite \/ Gp1Write

SpecGpuControl == InitBus /\ [][NextGpuControl]_vars

----------------------------------------------------------------------------
(* The CPU reset while it runs: the host calls reset() between steps.  The *)
(* constructor CPU::CPU initialises no member, and no code of CPU assigns  *)
(* delay_slot: it holds what the storage of the object held.               *)

ResetInstrs ==
    { IType(\h09, 0, 2, \hFF80),     \* ADDIU $2, $0, -128
      W(\h10 * 1024 + 4 * 32 + 2, 14 * 2048), \* MTC0 $2, EPC
      W(\h10 * 1024 + 4 * 32 + 2, 12 * 2048), \* MTC0 $2, SR
      RType(2, 0, 0, 0, \h11),       \* MTHI  $2
      RType(2, 0, 0, 0, \h13),       \* MTLO  $2
      RType(0, 0, 0, 0, \h0C),       \* SYSCALL
      JType(\h02, 3) }               \* J     0x0FC0000C

\* The CPU c with the member delay_slot.
WithDelaySlot(c, pending) ==
    [f \in DOMAIN c \cup {"delay_slot"} |->
        IF f = "delay_slot" THEN [pending |-> pending] ELSE c[f]]

\* CPU::reset on the CPU c: the members it assigns, and the others as in c.
reset_on(c, fresh) ==
    [f \in DOMAIN c |-> IF f \in DOMAIN fresh THEN fresh[f] ELSE c[f]]

CpuReset ==
    /\ Len(log) < MaxSteps
    /\ cpu' = reset_on(cpu, reset(bus, 0))
    /\ log' = Append(log, [cpu |-> cpu, bus |-> bus, word |-> W0,
                            traps |-> <<>>, acc |-> <<>>, reset |-> TRUE])
    /\ UNCHANGED bus

NextCpuReset == Step \/ CpuReset

InitCpuReset ==
    \E prog \in [1..ProgLen -> ResetInstrs], pending \in BOOLEAN :
        /\ bus = BusInit(Image(prog))
        /\ cpu = WithDelaySlot(reset(BusInit(Image(prog)), 0), pending)
        /\ log = <<>>

SpecCpuReset == InitCpuReset /\ [][NextCpuReset]_vars

----------------------------------------------------------------------------
(* The bus and the GPU reset between accesses.                             *)

\* SystemBus::reset: ram.clear() leaves a vector of size 0.  scratchpad is
\* declared a std::array, which has no clear(): it is left as it is or
\* emptied, as `scratch` says.
bus_reset(b, scratch) == [b EXCEPT !.ram = <<>>, !.ram_size = 0, !.scratchpad = scratch]

\* GPU::reset on the GPU g.
gpu_reset(g) == [reset_gp0(g) EXCEPT !.vram = <<>>]

\* What a reset leaves in the log.
ResetEntry(kind) ==
    [kind |-> kind, size |-> 0, vaddr |-> W0, u |-> 0, data |-> W0, value |-> W0,
     bus |-> bus]

BusReset ==
    /\ Len(log) < MaxAccesses
    /\ \E scratch \in {bus.scratchpad, <<>>} : bus' = bus_reset(bus, scratch)
    /\ log' = Append(log, ResetEntry("bus_reset"))
    /\ UNCHANGED cpu

GpuReset ==
    /\ Len(log) < MaxAccesses
    /\ bus' = [bus EXCEPT !.gpu = gpu_reset(@)]
    /\ log' = Append(log, ResetEntry("gpu_reset"))
    /\ UNCHANGED cpu

NextBusReset == BusRead \/ BusWrite \/ BusReset \/ GpuReset

SpecBusReset == InitBus /\ [][NextBusReset]_vars

----------------------------------------------------------------------------
(* Reading the log: step t started in Pre(t) and returned in Post(t).      *)

Steps == 1..Len(log)

Pre(t) == log[t].cpu

Post(t) == IF t < Len(log) THEN log[t + 1].cpu ELSE cpu

\* The bus when step t returned.
PostBus(t) == IF t < Len(log) THEN log[t + 1].bus ELSE bus

\* The address the instruction executed by step t was fetched from.
FetchedAt(t) == log[t].acc[1].vaddr

EntryTrap(t) == Pre(t).pc[2] % 4 # 0

\* The traps raised by the instruction itself.
InstrTraps(t) == IF EntryTrap(t) THEN Tail(log[t].traps) ELSE log[t].traps

\* The bus accesses of the instruction itself: all but the two fetches.
DataAccesses(t) == SubSeq(log[t].acc, 2, Len(log[t].acc) - 1)

IsBranchOrJump(w) ==
    \/ op(w) \in 1..7
    \/ op(w) = 0 /\ funct(w) \in {8, 9}

IsLoad(w) == op(w) \in {\h20, \h21, \h23, \h24, \h25}

VECTOR == W(\h8000, \h0080)

----------------------------------------------------------------------------
(* Register zero.                                                          *)

\* C1: whenever step has returned, gpr[0] is zero, whatever the executed
\* instruction named as its destination and whether or not it trapped.
C1_ZeroAfterStep ==
    /\ cpu.gpr[0] = W0
    /\ \A t \in Steps : Post(t).gpr[0] = W0

\* A step has executed ADDIU $0, $0, 1 or JALR $0, $0, which both name
\* register 0 as the destination of a non-zero value.
C1_Witness ==
    /\ Len(log) > 0
    /\ \E t \in Steps :
          /\ log[t].traps = <<>>
          /\ \/ op(log[t].word) = \h09 /\ rt(log[t].word) = 0
                   /\ immediate(log[t].word) # 0
             \/ op(log[t].word) = 0 /\ funct(log[t].word) = 9
                   /\ rd(log[t].word) = 0
          /\ Post(t).gpr[0] = W0

----------------------------------------------------------------------------
(* Program counter.                                                        *)

\* C4: a step that executes a non-branch, non-jump instruction without a trap
\* leaves pc at the old next_pc and next_pc at the old next_pc plus 4; a run
\* of N such steps started with next_pc = pc + 4 ends with pc = pc0 + 4N.
C4_SequentialAdvance ==
    /\ \A t \in Steps :
          (log[t].traps = <<>> /\ ~IsBranchOrJump(log[t].word)) =>
              /\ Post(t).pc = Pre(t).next_pc
              /\ Post(t).next_pc = Add(Pre(t).next_pc, W4)
    /\ \A i \in Steps : \A j \in i..Len(log) :
          (/\ Pre(i).next_pc = Add(Pre(i).pc, W4)
           /\ \A t \in i..j : log[t].traps = <<>> /\ ~IsBranchOrJump(log[t].word)) =>
              Post(j).pc = Add(Pre(i).pc, W(0, 4 * (j - i + 1)))

\* Three plain instructions in a row from the reset vector.
C4_Witness ==
    /\ Len(log) = 3
    /\ \A t \in Steps : log[t].traps = <<>> /\ ~IsBranchOrJump(log[t].word)
    /\ cpu.pc = Add(RESET_VECTOR, W(0, 12))

----------------------------------------------------------------------------
(* Branch delay.                                                           *)

\* The condition of a conditional branch, on the registers step t started with.
ConditionFalse(t) ==
    LET w == log[t].word
        s == Pre(t).gpr[rs(w)]
        r == Pre(t).gpr[rt(w)]
    IN  CASE op(w) = 4 -> s # r
          [] op(w) = 5 -> s = r
          [] op(w) = 6 -> ~(Negative(s) \/ s = W0)
          [] op(w) = 7 -> Negative(s) \/ s = W0
          [] OTHER     -> FALSE

\* A branch or jump fetched from A = pc with next_pc = A + 4.
BranchAt(t) ==
    /\ IsBranchOrJump(log[t].word)
    /\ ~EntryTrap(t)
    /\ Pre(t).next_pc = Add(Pre(t).pc, W4)

----------------------------------------------------------------------------
(* Traps.                                                                  *)

\* C5: whenever an instruction traps, EPC is the address that instruction was
\* fetched from, also when it sits in a branch delay slot.
C5_EpcIsTrappingInstruction ==
    \A t \in Steps : InstrTraps(t) # <<>> => Post(t).cop0.EPC = FetchedAt(t)

\* The mode-stack push and the ExcCode replacement, by arithmetic on the low
\* halfword.
PushedSR(sr) == W(sr[1], (sr[2] - (sr[2] % 64)) + (sr[2] % 16) * 4)

CauseWith(cause, exc) == W(0, ((cause[2] \div 256) * 256) + exc * 4)

C8_MisalignedFetch ==
    \A t \in Steps : EntryTrap(t) =>
        /\ Len(log[t].traps) >= 1
        /\ log[t].traps[1].exc = AdEL
        /\ log[t].traps[1].after.cop0.Cause[2] % 256 = AdEL * 4
        /\ log[t].traps[1].after.cop0.BadA = Pre(t).pc
        /\ FetchedAt(t) = VECTOR

\* C9: a read of register 0 as an operand yields 0 even when the instruction
\* also names register 0 as its destination: a register jump through register
\* 0 sets next_pc to 0.
C9_ZeroOperand ==
    \A t \in Steps :
        (/\ ~EntryTrap(t)
         /\ op(log[t].word) = 0 /\ funct(log[t].word) \in {8, 9}
         /\ rs(log[t].word) = 0) => Post(t).next_pc = W0

----------------------------------------------------------------------------
(* Arithmetic overflow.                                                    *)

SignedHigh(w) == IF w[1] >= 32768 THEN w[1] - 65536 ELSE w[1]

\* Whether the exact sum, or difference, of two signed words leaves the range
\* of a signed word, by the high halfword of the exact result.
SumOutOfRange(a, b) ==
    LET high == SignedHigh(a) + SignedHigh(b) + ((a[2] + b[2]) \div 65536)
    IN  high < -32768 \/ high > 32767

DifferenceOutOfRange(a, b) ==
    LET high == SignedHigh(a) - SignedHigh(b) - (IF a[2] < b[2] THEN 1 ELSE 0)
    IN  high < -32768 \/ high > 32767

\* Step t raised exactly the trap exc and changed no general register.
TrappedWith(t, exc) ==
    /\ Len(InstrTraps(t)) = 1
    /\ InstrTraps(t)[1].exc = exc
    /\ Post(t).cop0.Cause[2] % 256 = exc * 4
    /\ Post(t).gpr = Pre(t).gpr

\* Step t raised no trap and wrote v to register d.
Wrote(t, d, v) ==
    /\ InstrTraps(t) = <<>>
    /\ d # 0 => Post(t).gpr[d] = v

\* C7: ADD, ADDI and SUB raise Ovf exactly when the signed result leaves the
\* range of a word, and then leave the destination register unwritten; ADDU,
\* ADDIU and SUBU never trap and write the wrapped result.
C7_OverflowTraps ==
    \A t \in Steps :
        LET w  == log[t].word
            a  == Pre(t).gpr[rs(w)]
            b  == Pre(t).gpr[rt(w)]
            se == SignExtendHalfword(immediate(w))
        IN  /\ (op(w) = 0 /\ funct(w) = \h20) =>
                  IF SumOutOfRange(a, b) THEN TrappedWith(t, Ovf)
                                         ELSE Wrote(t, rd(w), Add(a, b))
            /\ (op(w) = 0 /\ funct(w) = \h22) =>
                  IF DifferenceOutOfRange(a, b) THEN TrappedWith(t, Ovf)
                                                ELSE Wrote(t, rd(w), Sub(a, b))
            /\ op(w) = \h08 =>
                  IF SumOutOfRange(a, se) THEN TrappedWith(t, Ovf)
                                          ELSE Wrote(t, rt(w), Add(a, se))
            /\ (op(w) = 0 /\ funct(w) = \h21) => Wrote(t, rd(w), Add(a, b))
            /\ (op(w) = 0 /\ funct(w) = \h23) => Wrote(t, rd(w), Sub(a, b))
            /\ op(w) = \h09 => Wrote(t, rt(w), Add(a, se))

\* An ADD of 0x80000000 to itself trapped and left 0x7FFFFFFF in its
\* destination, after an ADDIU on the same operands wrapped without a trap.
C7_Witness ==
    \E t \in Steps :
        /\ t > 1
        /\ op(log[t - 1].word) = \h09 /\ rt(log[t - 1].word) = 3
        /\ log[t - 1].traps = <<>>
        /\ SumOutOfRange(Pre(t - 1).gpr[1], W(\hFFFF, \hFFFF))
        /\ op(log[t].word) = 0 /\ funct(log[t].word) = \h20
        /\ Pre(t).gpr[1] = W(\h8000, 0)
        /\ Pre(t).gpr[3] = W(\h7FFF, \hFFFF)
        /\ TrappedWith(t, Ovf)
        /\ Post(t).gpr[3] = W(\h7FFF, \hFFFF)

----------------------------------------------------------------------------
(* Loads.                                                                  *)

LoadSize(w) ==
    CASE op(w) \in {\h20, \h24} -> 1
      [] op(w) \in {\h21, \h25} -> 2
      [] OTHER                  -> 4

\* The effective address of the load or store executed by step t.
EffectiveAddress(t) ==
    Add(SignExtendHalfword(immediate(log[t].word)), Pre(t).gpr[rs(log[t].word)])

\* The value the load executed by step t found in memory, extended to a word.
LoadedValue(t) ==
    LET w   == log[t].word
        raw == memory_access(log[t].bus, LoadSize(w), EffectiveAddress(t), 0)
    IN  CASE op(w) = \h20 -> SignExtendByte(raw[2])
          [] op(w) = \h21 -> SignExtendHalfword(raw[2])
          [] OTHER        -> raw

\* The register an instruction of the load family's programs writes.
Destination(w) ==
    CASE op(w) = 0           -> rd(w)
      [] op(w) \in 8..\h0F   -> rt(w)
      [] IsLoad(w)           -> rt(w)
      [] OTHER               -> 0

\* C2: a load that does not trap leaves gpr[rt] as it was for the instruction
\* of the next step, and the instruction of the step after that sees the
\* loaded value.
C2_LoadDelay ==
    \A t \in Steps :
        (IsLoad(log[t].word) /\ log[t].traps = <<>> /\ rt(log[t].word) # 0) =>
            /\ Post(t).gpr[rt(log[t].word)] = Pre(t).gpr[rt(log[t].word)]
            /\ (/\ t + 1 <= Len(log)
                /\ log[t + 1].traps = <<>>
                /\ Destination(log[t + 1].word) # rt(log[t].word))
                  => Post(t + 1).gpr[rt(log[t].word)] = LoadedValue(t)

\* C10: LH and LHU at an odd address and LW at an address that is not a
\* multiple of 4 raise AdEL with BadA the effective address, access no data
\* on the bus and leave gpr[rt] unchanged; LB and LBU never trap.
C10_MisalignedLoad ==
    \A t \in Steps :
        LET w  == log[t].word
            va == EffectiveAddress(t)
        IN  /\ (\/ op(w) \in {\h21, \h25} /\ va[2] % 2 = 1
                \/ op(w) = \h23 /\ va[2] % 4 # 0) =>
                  /\ TrappedWith(t, AdEL)
                  /\ InstrTraps(t)[1].bad_vaddr = va
                  /\ Post(t).cop0.BadA = va
                  /\ DataAccesses(t) = <<>>
                  /\ Post(t).gpr[rt(w)] = Pre(t).gpr[rt(w)]
            /\ op(w) \in {\h20, \h24} =>
                  /\ InstrTraps(t) = <<>>
                  /\ Len(DataAccesses(t)) = 1
                  /\ Post(t).gpr[rt(w)] = LoadedValue(t)

\* An LW at 0xBFC00002 trapped with register $2 holding 5 before and after.
C10_Witness ==
    \E t \in Steps :
        /\ op(log[t].word) = \h23
        /\ EffectiveAddress(t) = W(\hBFC0, 2)
        /\ Pre(t).gpr[2] = W(0, 5)
        /\ TrappedWith(t, AdEL)
        /\ cpu.cop0.BadA = W(\hBFC0, 2)
        /\ cpu.gpr[2] = W(0, 5)
        /\ DataAccesses(t) = <<>>

----------------------------------------------------------------------------
(* Stores.                                                                 *)

\* Bit 16 of SR on entry to step t.
CacheIsolated(t) == (Pre(t).cop0.SR[1] % 2) = 1

\* The bus writes of step t.
Writes(t) == SelectSeq(log[t].acc, LAMBDA a : a.kind = "write")

\* Step t raised AdES and vectored before writing anything on the bus.
AddressErrorOnStore(t) ==
    /\ TrappedWith(t, AdES)
    /\ Post(t).pc = VECTOR
    /\ Writes(t) = <<>>
    /\ PostBus(t) = log[t].bus

\* C11 as stated: in any CPU state, an SH at an odd address and an SW at an
\* address that is not a multiple of 4 raise AdES (ExcCode 5, pc 0x80000080)
\* before any bus write, leaving RAM, scratchpad and GPU as they were; SB
\* never traps.
C11_AsStated ==
    \A t \in Steps :
        LET w  == log[t].word
            va == EffectiveAddress(t)
        IN  /\ (\/ op(w) = \h29 /\ va[2] % 2 = 1
                \/ op(w) = \h2B /\ va[2] % 4 # 0) => AddressErrorOnStore(t)
            /\ op(w) = \h28 => InstrTraps(t) = <<>>

\* C11: an SH at an odd address, and an SW at an address that is not a
\* multiple of 4 executed with SR.IsC clear, raise AdES (ExcCode 5, pc
\* 0x80000080) before any bus write, leaving RAM, scratchpad and GPU as they
\* were; with SR.IsC set an SW raises no trap and writes nothing; SB never
\* traps.
C11_StoreAlignment ==
    \A t \in Steps :
        LET w  == log[t].word
            va == EffectiveAddress(t)
        IN  /\ (\/ op(w) = \h29 /\ va[2] % 2 = 1
                \/ op(w) = \h2B /\ va[2] % 4 # 0 /\ ~CacheIsolated(t))
                  => AddressErrorOnStore(t)
            /\ (op(w) = \h2B /\ CacheIsolated(t)) =>
                  /\ InstrTraps(t) = <<>>
                  /\ Writes(t) = <<>>
                  /\ PostBus(t) = log[t].bus
            /\ op(w) = \h28 => InstrTraps(t) = <<>>

\* An SW of 0xFFFFFF80 to address 6, with SR.IsC clear, trapped with AdES and
\* left RAM empty.
C11_Witness ==
    \E t \in Steps :
        /\ op(log[t].word) = \h2B
        /\ EffectiveAddress(t) = W(0, 6)
        /\ Pre(t).gpr[2] = W(\hFFFF, \hFF80)
        /\ ~CacheIsolated(t)
        /\ AddressErrorOnStore(t)
        /\ PostBus(t).ram = <<>>

\* The physical address of a virtual address, and the two memories by their
\* address ranges.
Physical(v) == W(v[1] % 8192, v[2])

InRam(p) == p[1] <= \h001F

InScratchpad(p) == p[1] = \h1F80 /\ p[2] <= \h03FF

\* The byte and the little-endian word of a memory at a byte offset.
ByteOf(arr, j) == IF j \in DOMAIN arr THEN arr[j] ELSE 0

WordOf(arr, j) ==
    W(ByteOf(arr, j + 3) * 256 + ByteOf(arr, j + 2),
      ByteOf(arr, j + 1) * 256 + ByteOf(arr, j))

\* Two memories agree outside the n bytes at offset j.
SameOutside(old, new, j, n) ==
    \A k \in (DOMAIN old \cup DOMAIN new) \ (j..(j + n - 1)) :
        ByteOf(old, k) = ByteOf(new, k)

\* Step t changed memory in the n bytes at the physical address p only, if p
\* lies in RAM or the scratchpad, and changed nothing else on the bus.
WroteOnlyAt(t, p, n) ==
    LET b0 == log[t].bus
        b1 == PostBus(t)
    IN  /\ b1.bios = b0.bios /\ b1.gpu = b0.gpu /\ b1.oob = b0.oob
        /\ IF InRam(p)
           THEN /\ SameOutside(b0.ram, b1.ram, p[1] * 65536 + p[2], n)
                /\ b1.scratchpad = b0.scratchpad
           ELSE IF InScratchpad(p)
           THEN /\ SameOutside(b0.scratchpad, b1.scratchpad, p[2], n)
                /\ b1.ram = b0.ram
           ELSE b1.ram = b0.ram /\ b1.scratchpad = b0.scratchpad

\* The word of memory at the physical address p when step t returned.
StoredWord(t, p) ==
    IF InRam(p) THEN WordOf(PostBus(t).ram, p[1] * 65536 + p[2])
                ELSE WordOf(PostBus(t).scratchpad, p[2])

\* C12: with SR bit 16 (IsC) set an SW changes no byte of RAM or scratchpad
\* and delivers nothing to the GPU, whatever its address and register value;
\* with the bit clear an SW at a multiple of 4 writes gpr[rt] to the addressed
\* word of RAM or scratchpad and changes no other byte.
C12_IsolatedCacheStore ==
    \A t \in Steps :
        LET w   == log[t].word
            va  == EffectiveAddress(t)
            p   == Physical(va)
            reg == Pre(t).gpr[rt(w)]
        IN  op(w) = \h2B =>
              /\ CacheIsolated(t) =>
                    /\ Writes(t) = <<>>
                    /\ PostBus(t) = log[t].bus
              /\ (~CacheIsolated(t) /\ va[2] % 4 = 0) =>
                    /\ InstrTraps(t) = <<>>
                    /\ Len(Writes(t)) = 1
                    /\ Writes(t)[1].size = 4 /\ Writes(t)[1].vaddr = va
                    /\ (InRam(p) \/ InScratchpad(p)) =>
                          /\ StoredWord(t, p) = reg
                          /\ WroteOnlyAt(t, p, 4)

\* An SW of 0x00010000 to address 4 executed with IsC set left RAM empty.
C12_Witness ==
    \E t \in Steps :
        /\ op(log[t].word) = \h2B
        /\ CacheIsolated(t)
        /\ EffectiveAddress(t) = W(0, 4)
        /\ Pre(t).gpr[rt(log[t].word)] = W(1, 0)
        /\ Writes(t) = <<>>
        /\ PostBus(t).ram = <<>>

\* An SW of 0x00010000 to address 4 executed with IsC clear put the bytes
\* 00 00 01 00 at RAM offsets 4..7.
C12_WroteWitness ==
    \E t \in Steps :
        /\ op(log[t].word) = \h2B
        /\ ~CacheIsolated(t)
        /\ EffectiveAddress(t) = W(0, 4)
        /\ Pre(t).gpr[rt(log[t].word)] = W(1, 0)
        /\ PostBus(t).ram = (6 :> 1)

----------------------------------------------------------------------------
(* Division.                                                               *)

MINUS_ONE == W(\hFFFF, \hFFFF)

INT_MIN == W(\h8000, \h0000)

IsNegative(w) == w[1] >= 32768

Magnitude(w) == IF IsNegative(w) THEN Sub(W0, w) ELSE w

Below(x, y) == x[1] < y[1] \/ (x[1] = y[1] /\ x[2] < y[2])

\* a = q * b + r with r < b, on unsigned words and without wrapping.
ExactDivision(a, b, q, r) ==
    /\ MulUnsigned(q, b).hi = W0
    /\ ~Below(a, MulUnsigned(q, b).lo)
    /\ Sub(a, MulUnsigned(q, b).lo) = r
    /\ Below(r, b)

\* a = q * b + r as signed values, with q truncated toward zero.
TruncatedDivision(a, b, q, r) ==
    /\ ExactDivision(Magnitude(a), Magnitude(b), Magnitude(q), Magnitude(r))
    /\ q # W0 => (IsNegative(q) <=> (IsNegative(a) # IsNegative(b)))
    /\ r # W0 => (IsNegative(r) <=> IsNegative(a))

\* C13: DIV by 0 leaves lo = 1 for a negative dividend and 0xFFFFFFFF
\* otherwise, with hi the dividend; DIV of 0x80000000 by 0xFFFFFFFF leaves lo
\* = 0x80000000 and hi = 0; any other DIV leaves the quotient truncated toward
\* zero in lo and the remainder in hi; DIVU by 0 leaves lo = 0xFFFFFFFF and hi
\* the dividend, and otherwise the unsigned quotient and remainder; no
\* division traps or changes a general register.
C13_Division ==
    \A t \in Steps :
        LET w  == log[t].word
            a  == Pre(t).gpr[rs(w)]
            b  == Pre(t).gpr[rt(w)]
            lo == Post(t).lo
            hi == Post(t).hi
        IN  /\ (op(w) = 0 /\ funct(w) \in {\h1A, \h1B}) =>
                  /\ InstrTraps(t) = <<>>
                  /\ Post(t).gpr = Pre(t).gpr
            /\ (op(w) = 0 /\ funct(w) = \h1A) =>
                  IF b = W0
                  THEN /\ lo = (IF IsNegative(a) THEN W(0, 1) ELSE MINUS_ONE)
                       /\ hi = a
                  ELSE IF a = INT_MIN /\ b = MINUS_ONE
                  THEN lo = INT_MIN /\ hi = W0
                  ELSE TruncatedDivision(a, b, lo, hi)
            /\ (op(w) = 0 /\ funct(w) = \h1B) =>
                  IF b = W0
                  THEN lo = MINUS_ONE /\ hi = a
                  ELSE ExactDivision(a, b, lo, hi)

\* A DIV of -7 by 2 left -3 in lo and -1 in hi.
C13_Witness ==
    \E t \in Steps :
        /\ op(log[t].word) = 0 /\ funct(log[t].word) = \h1A
        /\ Pre(t).gpr[rs(log[t].word)] = W(\hFFFF, \hFFF9)
        /\ Pre(t).gpr[rt(log[t].word)] = W(0, 2)
        /\ Post(t).lo = W(\hFFFF, \hFFFD)
        /\ Post(t).hi = MINUS_ONE

\* A DIV of 0x80000000 by 0xFFFFFFFF left 0x80000000 in lo and 0 in hi.
C13_OverflowCase ==
    \E t \in Steps :
        /\ op(log[t].word) = 0 /\ funct(log[t].word) = \h1A
        /\ Pre(t).gpr[rs(log[t].word)] = INT_MIN
        /\ Pre(t).gpr[rt(log[t].word)] = MINUS_ONE
        /\ Post(t).lo = INT_MIN /\ Post(t).hi = W0

\* A DIV of -7 by 0 left 1 in lo and -7 in hi.
C13_ZeroCase ==
    \E t \in Steps :
        /\ op(log[t].word) = 0 /\ funct(log[t].word) = \h1A
        /\ Pre(t).gpr[rs(log[t].word)] = W(\hFFFF, \hFFF9)
        /\ Pre(t).gpr[rt(log[t].word)] = W0
        /\ Post(t).lo = W(0, 1) /\ Post(t).hi = W(\hFFFF, \hFFF9)

----------------------------------------------------------------------------
(* BCOND and the linking jumps.                                            *)

\* The address a taken branch of step t goes to: the address of its delay
\* slot plus the sign-extended offset times 4.
BranchTarget(t) ==
    LET w == log[t].word
        d == IF immediate(w) >= 32768 THEN immediate(w) - 65536 ELSE immediate(w)
        low == Pre(t).next_pc[2] + ((d * 4) % 65536)
        high == Pre(t).next_pc[1] + ((d * 4) \div 65536) + (low \div 65536)
    IN  W(high % 65536, low % 65536)

\* The BCOND condition on the value v of its rs operand.
BcondCondition(w, v) ==
    \/ rt(w) % 2 = 0 /\ IsNegative(v)
    \/ rt(w) % 2 = 1 /\ ~IsNegative(v)

\* What C14 says of a BCOND executed by step t whose rs operand is v.
BcondEffect(t, v) ==
    LET w == log[t].word
    IN  /\ InstrTraps(t) = <<>>
        /\ Post(t).pc = Pre(t).next_pc
        /\ Post(t).next_pc = IF BcondCondition(w, v) THEN BranchTarget(t)
                             ELSE Add(Pre(t).next_pc, W4)
        /\ Post(t).gpr[31] = IF rt(w) \div 16 = 1 THEN Add(Pre(t).next_pc, W4)
                             ELSE Pre(t).gpr[31]
        /\ \A r \in 0..30 : Post(t).gpr[r] = Pre(t).gpr[r]

\* C14: every value of rt is accepted by BCOND; with bit 4 of rt set gpr[31]
\* becomes the address after the delay slot whether or not the branch is
\* taken; the branch is taken exactly when bit 0 of rt is 0 and gpr[rs] is
\* negative, or bit 0 is 1 and gpr[rs] is not negative; bits 1..3 of rt change
\* nothing.
C14_Bcond ==
    \A t \in Steps :
        (op(log[t].word) = 1 /\ ~EntryTrap(t)) =>
            BcondEffect(t, Pre(t).gpr[rs(log[t].word)])

\* The same with the operand read after the link register is written.
C14_OperandAfterLink ==
    \A t \in Steps :
        (op(log[t].word) = 1 /\ ~EntryTrap(t)) =>
            BcondEffect(t, IF rs(log[t].word) = 31 /\ rt(log[t].word) \div 16 = 1
                           THEN Add(Pre(t).next_pc, W4)
                           ELSE Pre(t).gpr[rs(log[t].word)])

\* A BCOND with rt = 0x0E on a negative register was taken without linking,
\* and one with rt = 0x1F on a negative register linked without being taken.
C14_TakenCase ==
    \E t \in Steps :
        /\ op(log[t].word) = 1 /\ rt(log[t].word) = \h0E
        /\ Pre(t).gpr[1] = MINUS_ONE
        /\ Post(t).next_pc = W(\hBFC0, \h0010)
        /\ Post(t).gpr[31] = W0

C14_LinkCase ==
    \E t \in Steps :
        /\ op(log[t].word) = 1 /\ rt(log[t].word) = \h1F
        /\ Pre(t).gpr[1] = MINUS_ONE
        /\ Pre(t).pc = W(\hBFC0, \h0004)
        /\ Post(t).next_pc = W(\hBFC0, \h000C)
        /\ Post(t).gpr[31] = W(\hBFC0, \h000C)

\* ((A + 4) & 0xF0000000) | (target << 2), for the jump word w fetched at A,
\* by arithmetic on the halfwords.
RegionJump(a, w) ==
    LET a4 == Add(a, W4)
    IN  W((a4[1] \div 4096) * 4096 + (w[1] % 1024) * 4 + (w[2] \div 16384),
          (w[2] * 4) % 65536)

\* C15: a J or JAL fetched at A and entered with next_pc = A + 4 leaves
\* next_pc = ((A + 4) & 0xF0000000) | (target << 2); JAL also leaves gpr[31] =
\* A + 8, and JALR leaves gpr[rd] = A + 8, the address after the delay slot.
C15_JumpAndLink ==
    \A t \in Steps :
        LET w == log[t].word
            a == Pre(t).pc
        IN  (~EntryTrap(t) /\ Pre(t).next_pc = Add(a, W4)) =>
              /\ op(w) \in {2, 3} => Post(t).next_pc = RegionJump(a, w)
              /\ op(w) = 2 => Post(t).gpr = Pre(t).gpr
              /\ op(w) = 3 => Post(t).gpr[31] = Add(a, W(0, 8))
              /\ (op(w) = 0 /\ funct(w) = 9 /\ rd(w) # 0) =>
                    Post(t).gpr[rd(w)] = Add(a, W(0, 8))

\* A JAL at 0xBFC00000 left next_pc = 0xBFC0000C and gpr[31] = 0xBFC00008.
C15_Witness ==
    \E t \in Steps :
        /\ op(log[t].word) = 3
        /\ Pre(t).pc = RESET_VECTOR
        /\ Pre(t).next_pc = W(\hBFC0, \h0004)
        /\ Post(t).next_pc = W(\hBFC0, \h000C)
        /\ Post(t).gpr[31] = W(\hBFC0, \h0008)

\* A JALR at 0xBFC00004 left 0xBFC0000C in register $2.
C15_RegisterCase ==
    \E t \in Steps :
        /\ op(log[t].word) = 0 /\ funct(log[t].word) = 9 /\ rd(log[t].word) = 2
        /\ Pre(t).pc = W(\hBFC0, \h0004)
        /\ Pre(t).next_pc = W(\hBFC0, \h0008)
        /\ Post(t).gpr[2] = W(\hBFC0, \h000C)

----------------------------------------------------------------------------
(* A store followed by a load.                                             *)

StoreSize(w) ==
    CASE op(w) = \h28 -> 1
      [] op(w) = \h29 -> 2
      [] OTHER        -> 4

\* The value a load of the word w returns once v was stored with its width.
RoundTripValue(w, v) ==
    CASE op(w) = \h20 ->
            W(IF v[2] % 256 >= 128 THEN \hFFFF ELSE 0,
              IF v[2] % 256 >= 128 THEN \hFF00 + (v[2] % 256) ELSE v[2] % 256)
      [] op(w) = \h24 -> W(0, v[2] % 256)
      [] op(w) = \h21 -> W(IF v[2] >= 32768 THEN \hFFFF ELSE 0, v[2])
      [] op(w) = \h25 -> W(0, v[2])
      [] OTHER        -> v

\* Step t - 1 executed a store and step t a load of the same width at the
\* same address, a multiple of the width in RAM or the scratchpad, into a
\* register other than $0.
StoreThenLoad(t) ==
    /\ t > 1 /\ ~EntryTrap(t - 1) /\ ~EntryTrap(t)
    /\ op(log[t - 1].word) \in {\h28, \h29, \h2B}
    /\ IsLoad(log[t].word)
    /\ LoadSize(log[t].word) = StoreSize(log[t - 1].word)
    /\ EffectiveAddress(t) = EffectiveAddress(t - 1)
    /\ EffectiveAddress(t)[2] % LoadSize(log[t].word) = 0
    /\ (InRam(Physical(EffectiveAddress(t))) \/ InScratchpad(Physical(EffectiveAddress(t))))
    /\ rt(log[t].word) # 0

\* C16 as stated: at every aligned address of RAM or scratchpad and for every
\* register value v, SB then LBU returns v & 0xFF and LB its sign extension,
\* SH then LHU returns v & 0xFFFF and LH its sign extension, and SW then LW
\* returns v.
C16_AsStated ==
    \A t \in Steps :
        StoreThenLoad(t) =>
            Post(t).gpr[rt(log[t].word)] =
                RoundTripValue(log[t].word, Pre(t - 1).gpr[rt(log[t - 1].word)])

\* C16: the same, for SW then LW provided SR.IsC is clear when the SW
\* executes.
C16_RoundTrip ==
    \A t \in Steps :
        (StoreThenLoad(t) /\ (op(log[t - 1].word) = \h2B => ~CacheIsolated(t - 1))) =>
            Post(t).gpr[rt(log[t].word)] =
                RoundTripValue(log[t].word, Pre(t - 1).gpr[rt(log[t - 1].word)])

\* An SB of 0x876543A1 to RAM address 5 followed by an LB at the same address
\* returned 0xFFFFFFA1.
C16_Witness ==
    \E t \in Steps :
        /\ StoreThenLoad(t)
        /\ op(log[t - 1].word) = \h28 /\ op(log[t].word) = \h20
        /\ Pre(t - 1).gpr[2] = W(\h8765, \h43A1)
        /\ EffectiveAddress(t) = W(0, 5)
        /\ Post(t).gpr[3] = W(\hFFFF, \hFFA1)

\* An SW of 0xFFFFFF80 to the scratchpad followed by an LW at the same
\* address returned 0xFFFFFF80.
C16_ScratchpadCase ==
    \E t \in Steps :
        /\ StoreThenLoad(t)
        /\ op(log[t - 1].word) = \h2B /\ op(log[t].word) = \h23
        /\ Pre(t - 1).gpr[2] = W(\hFFFF, \hFF80)
        /\ EffectiveAddress(t) = W(\h1F80, 4)
        /\ Post(t).gpr[3] = W(\hFFFF, \hFF80)

----------------------------------------------------------------------------
(* LWL and LWR.                                                            *)

InBios(p) == p[1] >= \h1FC0 /\ p[1] <= \h1FC7

\* The byte of memory at the virtual address v on the bus b.
MemoryByte(b, v) ==
    LET p == Physical(v)
    IN  CASE InRam(p)        -> ByteOf(b.ram, p[1] * 65536 + p[2])
          [] InScratchpad(p) -> ByteOf(b.scratchpad, p[2])
          [] InBios(p)       -> ByteOf(b.bios, (p[1] - \h1FC0) * 65536 + p[2])
          [] OTHER           -> 0

InMemory(v) ==
    InRam(Physical(v)) \/ InScratchpad(Physical(v)) \/ InBios(Physical(v))

\* The little-endian word formed from the four bytes at v, v+1, v+2, v+3.
BytewiseWord(b, v) ==
    W(MemoryByte(b, Add(v, W(0, 3))) * 256 + MemoryByte(b, Add(v, W(0, 2))),
      MemoryByte(b, Add(v, W(0, 1))) * 256 + MemoryByte(b, v))

\* Steps t - 1 and t executed the instructions with opcodes first and second
\* on the same target register, not $0 and not their base register, the one
\* with opcode atLow at an address whose four bytes are memory and the other
\* at that address plus 3.
UnalignedPair(t, first, second, atLow) ==
    /\ t > 1 /\ ~EntryTrap(t - 1) /\ ~EntryTrap(t)
    /\ op(log[t - 1].word) = first /\ op(log[t].word) = second
    /\ rt(log[t - 1].word) = rt(log[t].word)
    /\ rt(log[t].word) # 0
    /\ rt(log[t].word) # rs(log[t].word)
    /\ rt(log[t].word) # rs(log[t - 1].word)
    /\ LET low  == IF first = atLow THEN EffectiveAddress(t - 1) ELSE EffectiveAddress(t)
           high == IF first = atLow THEN EffectiveAddress(t) ELSE EffectiveAddress(t - 1)
       IN  /\ high = Add(low, W(0, 3))
           /\ \A k \in 0..3 : InMemory(Add(low, W(0, k)))

\* The address of the lower of the two accesses of a pair.
PairAddress(t, first, atLow) ==
    IF first = atLow THEN EffectiveAddress(t - 1) ELSE EffectiveAddress(t)

----------------------------------------------------------------------------
(* The bus.                                                                *)

\* The three views of a physical address.
Kuseg(v) == Physical(v)

Kseg0(v) == W(Physical(v)[1] + \h8000, v[2])

Kseg1(v) == W(Physical(v)[1] + \hA000, v[2])

\* The access of log entry t did, at the address a, what it did at its own.
SameAt(t, a) ==
    LET r == log[t]
    IN  IF r.kind = "read"
        THEN memory_access(r.bus, r.size, a, r.u) = r.value
        ELSE memory_access_write(r.bus, r.size, a, r.data) = PostBus(t)

\* C18: a read or write of any width at a virtual address v does what the
\* same access does at v & 0x1FFFFFFF, so that the KUSEG, KSEG0 and KSEG1
\* addresses of a location are aliases.
C18_AddressFolding ==
    \A t \in Steps :
        /\ SameAt(t, Kuseg(log[t].vaddr))
        /\ SameAt(t, Kseg0(log[t].vaddr))
        /\ SameAt(t, Kseg1(log[t].vaddr))

\* A word written at 0xA0000004 was read back at 0x00000004.
C18_Witness ==
    \E t \in Steps :
        /\ t > 1
        /\ log[t - 1].kind = "write" /\ log[t - 1].size = 4
        /\ log[t - 1].vaddr = W(\hA000, \h0004)
        /\ log[t - 1].data = W(\h6812, \h3456)
        /\ log[t].kind = "read" /\ log[t].size = 4
        /\ log[t].vaddr = W(\h0000, \h0004)
        /\ log[t].value = W(\h6812, \h3456)

\* The physical address lies in the I/O page.
InIo(p) == p[1] = \h1F80 /\ p[2] >= \h1000 /\ p[2] <= \h1FFF

Unmapped(p) == ~(InRam(p) \/ InScratchpad(p) \/ InIo(p) \/ InBios(p))

\* C19: at a physical address outside RAM, the scratchpad (0x1F800000 -
\* 0x1F8003FF), the I/O page and the BIOS, a read of any width returns 0 and a
\* write of any width changes nothing of RAM, scratchpad, BIOS or GPU.
C19_UnmappedAccess ==
    \A t \in Steps :
        Unmapped(Physical(log[t].vaddr)) =>
            /\ log[t].kind = "read" => log[t].value = W0
            /\ PostBus(t).ram = log[t].bus.ram
            /\ PostBus(t).scratchpad = log[t].bus.scratchpad
            /\ PostBus(t).bios = log[t].bus.bios
            /\ PostBus(t).gpu = log[t].bus.gpu

\* The same, for the addresses that no case of the bus decodes.
C19_Undecoded ==
    \A t \in Steps :
        (/\ Unmapped(Physical(log[t].vaddr))
         /\ ~(Physical(log[t].vaddr)[1] = \h1F80 /\ Physical(log[t].vaddr)[2] <= \h0FFF)) =>
            /\ log[t].kind = "read" => log[t].value = W0
            /\ PostBus(t) = log[t].bus

\* C20: no bus write, of any width and at any address, the BIOS range and its
\* KSEG0 and KSEG1 views included, changes a byte of the BIOS image, and a
\* write into the BIOS range changes nothing else either.
C20_BiosImmutable ==
    \A t \in Steps :
        /\ PostBus(t).bios = log[t].bus.bios
        /\ InBios(Physical(log[t].vaddr)) => PostBus(t) = log[t].bus

\* A word was written at 0xBFC00001, after a write to RAM had gone through,
\* and the image still starts with the bytes 0x78, 0x56, 0x35, 0x12.
C20_Witness ==
    \E t \in Steps :
        /\ t > 1
        /\ log[t - 1].kind = "write" /\ log[t - 1].vaddr = W(\h0000, \h0004)
        /\ log[t].bus.ram # <<>>
        /\ log[t].kind = "write" /\ log[t].size = 4
        /\ log[t].vaddr = W(\hBFC0, \h0001)
        /\ log[t].data = W(\h6812, \h3456)
        /\ WordOf(PostBus(t).bios, 0) = W(\h1235, \h5678)

----------------------------------------------------------------------------
(* The GPU registers on the bus.                                           *)

\* C21: a word read at 0x1F801810 returns the GPU's gpuread, a word read at
\* 0x1F801814 returns 0x1FF00000, and neither read changes the GPU.
C21_GpuRegisterReads ==
    \A t \in Steps :
        log[t].kind = "read" =>
            /\ log[t].vaddr = GP0_PORT => log[t].value = log[t].bus.gpu.gpuread
            /\ log[t].vaddr = GPUSTAT_PORT => log[t].value = W(\h1FF0, \h0000)
            /\ PostBus(t).gpu = log[t].bus.gpu

\* The same without the value read at 0x1F801810, which is 0.
C21_StatusAndFrame ==
    \A t \in Steps :
        log[t].kind = "read" =>
            /\ log[t].vaddr = GP0_PORT => log[t].value = W0
            /\ log[t].vaddr = GPUSTAT_PORT => log[t].value = W(\h1FF0, \h0000)
            /\ PostBus(t) = log[t].bus

\* GPUREAD was read while gpuread held a pixel taken from VRAM.
C21_ReadbackCase ==
    \E t \in Steps :
        /\ log[t].kind = "read" /\ log[t].vaddr = GP0_PORT
        /\ log[t].bus.gpu.gpuread # W0

----------------------------------------------------------------------------
(* The GP0 port.                                                           *)

\* The GPU that packet t met, and the GPU it left.
PreGpu(t) == log[t].bus.gpu

PostGpu(t) == PostBus(t).gpu

\* C22: from reset, after every packet sequence, remaining_words is 0 while
\* gp0_state is AwaitingCommand and greater than 0 while it is
\* ReceivingParameters; and the packet that makes remaining_words reach 0 for
\* the command 0x68 leaves the port in AwaitingCommand.
C22_RemainingWords ==
    /\ bus.gpu.gp0_state = "AwaitingCommand" => bus.gpu.remaining_words = 0
    /\ bus.gpu.gp0_state = "ReceivingParameters" => bus.gpu.remaining_words > 0
    /\ \A t \in Steps :
          (/\ PreGpu(t).gp0_state = "ReceivingParameters"
           /\ PreGpu(t).func = "draw_rect"
           /\ PreGpu(t).remaining_words = 1) =>
              PostGpu(t).gp0_state = "AwaitingCommand"

\* A dot was drawn, and then the first header word of a transfer left the
\* port in ReceivingParameters with one word to come.
C22_Witness ==
    /\ bus.gpu.gp0_state = "ReceivingParameters"
    /\ bus.gpu.remaining_words = 1
    /\ bus.gpu.func = "to_vram"
    /\ \E t \in Steps :
          /\ PreGpu(t).func = "draw_rect" /\ PreGpu(t).remaining_words = 1
          /\ log[t].packet = W(1, 2)
          /\ PostGpu(t).gp0_state = "AwaitingCommand"
          /\ PostGpu(t).remaining_words = 0
          /\ VramCell(PostGpu(t).vram, 2 + VRAM_WIDTH) # 0

\* Packet t is the second header word of a 0xA0 or 0xC0 command.
IsSizeWord(t) ==
    /\ PreGpu(t).gp0_state = "ReceivingParameters"
    /\ PreGpu(t).func \in {"to_vram", "to_cpu"}
    /\ PreGpu(t).remaining_words = 1

\* w = ((raw_w - 1) & 0x3FF) + 1 and h = ((raw_h - 1) & 0x1FF) + 1 of a size
\* word, and the number (w * h) / 2 of data words.
DecodedWidth(p) == ((p[2] + 1023) % 1024) + 1

DecodedHeight(p) == ((p[1] + 511) % 512) + 1

DataCount(p) == (DecodedWidth(p) * DecodedHeight(p)) \div 2

InDataPhase(g) == g.gp0_state \in {"ReceivingData", "TransferringData"}

\* C23: a 0xA0 or 0xC0 command takes two header words and then exactly
\* (w * h) / 2 data words, after which the port is AwaitingCommand, so that
\* the next packet is a command: for every header, those with (w * h) / 2 = 0
\* included.
C23_TransferLength ==
    \A t \in Steps :
        IsSizeWord(t) =>
            /\ PreGpu(t).params # <<>>
            /\ \A u \in Steps :
                  (t < u /\ u <= t + DataCount(log[t].packet)) => InDataPhase(PreGpu(u))
            /\ t + DataCount(log[t].packet) <= Len(log) =>
                  PostGpu(t + DataCount(log[t].packet)).gp0_state = "AwaitingCommand"

\* The same for the headers with (w * h) / 2 > 0; after a header with
\* (w * h) / 2 = 0 the port takes one more packet as data.
C23_NonEmptyTransfer ==
    \A t \in Steps :
        IsSizeWord(t) =>
            /\ \A u \in Steps :
                  (t < u /\ u <= t + DataCount(log[t].packet)) => InDataPhase(PreGpu(u))
            /\ (DataCount(log[t].packet) > 0 /\ t + DataCount(log[t].packet) <= Len(log)) =>
                  PostGpu(t + DataCount(log[t].packet)).gp0_state = "AwaitingCommand"
            /\ DataCount(log[t].packet) = 0 =>
                  /\ InDataPhase(PostGpu(t))
                  /\ t + 1 <= Len(log) => PostGpu(t + 1) = reset_gp0(PostGpu(t))

\* A 1x1 transfer was followed by the command word of a dot, which the port
\* took as data.
C23_SwallowedCommand ==
    \E t \in Steps :
        /\ IsSizeWord(t) /\ log[t].packet = W(1, 1)
        /\ t + 1 <= Len(log) /\ log[t + 1].packet = DOT
        /\ PostGpu(t + 1).gp0_state = "AwaitingCommand"

\* Packet u is data word number u - t of the transfer whose size word is
\* packet t (and whose destination word is packet t - 1).
IsDataWord(t, u, func) ==
    /\ IsSizeWord(t) /\ PreGpu(t).func = func
    /\ t < u /\ u <= t + DataCount(log[t].packet)

\* The VRAM cell of pixel k of a transfer to dest with the size word size.
PixelCell(dest, size, k) ==
    ((dest[2] % 1024) + (k % DecodedWidth(size)))
        + 1024 * ((dest[1] % 512) + (k \div DecodedWidth(size)))

\* C24: in the data phase of a 0xA0 command with destination (x0, y0) and
\* size (w, h), pixel k of the stream (the low halfword of a data word before
\* its high halfword) is written to the VRAM cell
\* ((x0 & 0x3FF) + (k mod w)) + 1024 * ((y0 & 0x1FF) + (k div w)).  Stated of
\* the data word sent last, in every state.
C24_PixelPlacement ==
    \A t \in Steps : \A u \in {Len(log)} :
        IsDataWord(t, u, "to_vram") =>
            /\ VramCell(PostGpu(u).vram,
                        PixelCell(log[t - 1].packet, log[t].packet, 2 * (u - t - 1)))
                   = log[u].packet[2]
            /\ VramCell(PostGpu(u).vram,
                        PixelCell(log[t - 1].packet, log[t].packet, 2 * (u - t - 1) + 1))
                   = log[u].packet[1]

\* A 2x2 transfer to (1023, 1) put its four pixels in the cells 2047, 2048,
\* 3071 and 3072.
C24_Witness ==
    \E t \in Steps :
        /\ IsSizeWord(t) /\ PreGpu(t).func = "to_vram"
        /\ log[t - 1].packet = W(1, \h03FF) /\ log[t].packet = W(2, 2)
        /\ t + 2 <= Len(log)
        /\ log[t + 1].packet = W(\hBBBB, \hAAAA) /\ log[t + 2].packet = DOT
        /\ VramCell(PostGpu(t + 2).vram, 2047) = \hAAAA
        /\ VramCell(PostGpu(t + 2).vram, 2048) = \hBBBB
        /\ VramCell(PostGpu(t + 2).vram, 3071) = \h80CC
        /\ VramCell(PostGpu(t + 2).vram, 3072) = \h68FF
        /\ PostGpu(t + 2).gp0_state = "AwaitingCommand"

\* Packet t is the size word of a 0xA0 transfer with at least one data word,
\* and the packets after its last data word are a 0xC0 command with the same
\* destination and size; r is the size word of that command.
ReadBackOf(t, r) ==
    /\ IsSizeWord(t) /\ PreGpu(t).func = "to_vram"
    /\ DataCount(log[t].packet) > 0
    /\ r = t + DataCount(log[t].packet) + 3
    /\ r <= Len(log)
    /\ log[r - 2].packet = W(\hC000, 0)
    /\ log[r - 1].packet = log[t - 1].packet
    /\ log[r].packet = log[t].packet

\* C25: after a 0xA0 transfer of a rectangle with the data words d1..dn, a
\* 0xC0 transfer of the same rectangle makes gpuread d1, ..., dn in this
\* order, one per step of its data phase, and leaves VRAM as it is.  Stated
\* of the packet sent last, in every state.
C25_VramRoundTrip ==
    \A t \in Steps : \A r \in {t + DataCount(log[t].packet) + 3} : \A u \in {Len(log)} :
        (ReadBackOf(t, r) /\ r < u /\ u <= r + DataCount(log[t].packet)) =>
            /\ PostGpu(u).gpuread = log[t + (u - r)].packet
            /\ PostGpu(u).vram = PreGpu(r - 2).vram

\* A 2x2 rectangle at (2, 1) was written with two data words and read back:
\* gpuread was the first word, then the second.
C25_Witness ==
    \E t \in Steps :
        /\ ReadBackOf(t, t + 5)
        /\ log[t - 1].packet = W(1, 2) /\ log[t].packet = W(2, 2)
        /\ log[t + 1].packet = W(\hBBBB, \hAAAA) /\ log[t + 2].packet = DOT
        /\ Len(log) = t + 7
        /\ PostGpu(t + 6).gpuread = W(\hBBBB, \hAAAA)
        /\ PostGpu(t + 7).gpuread = DOT
        /\ PostGpu(t + 7).gp0_state = "AwaitingCommand"

\* Packet t is the position word of a 0x68 command (packet t - 1).
IsPositionWord(t) ==
    /\ PreGpu(t).gp0_state = "ReceivingParameters"
    /\ PreGpu(t).func = "draw_rect"

\* (RR / 8) | ((GG / 8) << 5) | ((BB / 8) << 10) of the command word c.
DotPixel(c) ==
    ((c[2] % 256) \div 8) + 32 * ((c[2] \div 256) \div 8) + 1024 * ((c[1] % 256) \div 8)

\* Packet t wrote v to the VRAM cell i and changed no other cell.
WroteOnlyCell(t, i, v) ==
    /\ VramCell(PostGpu(t).vram, i) = v
    /\ \A j \in (DOMAIN PreGpu(t).vram \cup DOMAIN PostGpu(t).vram) \ {i} :
          VramCell(PostGpu(t).vram, j) = VramCell(PreGpu(t).vram, j)

DotDone(t) ==
    /\ PostGpu(t).gp0_state = "AwaitingCommand"
    /\ PostGpu(t).params = <<>>
    /\ PostGpu(t).remaining_words = 0

\* C26: a 0x68 command with the color 0x00BBGGRR and then one parameter word
\* y << 16 | x writes (RR/8) | ((GG/8) << 5) | ((BB/8) << 10) to the VRAM cell
\* x + 1024 * y and to no other cell, and leaves the port in AwaitingCommand
\* with no parameters.
C26_Dot ==
    \A t \in Steps :
        IsPositionWord(t) =>
            /\ WroteOnlyCell(t, log[t].packet[2] + 1024 * log[t].packet[1],
                             DotPixel(log[t - 1].packet))
            /\ DotDone(t)

\* The same for the positions with x and y below 0x8000; with bit 15 set the
\* coordinate is negative, and the cell is the one the signed sum names.
C26_SignedDot ==
    \A t \in Steps :
        IsPositionWord(t) =>
            /\ VramInRange(SignedHalf(log[t].packet[2]) + 1024 * SignedHalf(log[t].packet[1])) =>
                  WroteOnlyCell(t, SignedHalf(log[t].packet[2])
                                       + 1024 * SignedHalf(log[t].packet[1]),
                                DotPixel(log[t - 1].packet))
            /\ DotDone(t)

\* The dot at x = 0xFFFF, y = 1 went to the cell 1023.
C26_NegativeCase ==
    \E t \in Steps :
        /\ IsPositionWord(t) /\ log[t].packet = W(1, \hFFFF)
        /\ log[t - 1].packet = DOT
        /\ VramCell(PostGpu(t).vram, 1023) = \h7E19
        /\ VramCell(PostGpu(t).vram, 66559) = 0

\* The dot at (2, 1) went to the cell 1026.
C26_PlainCase ==
    \E t \in Steps :
        /\ IsPositionWord(t) /\ log[t].packet = W(1, 2)
        /\ WroteOnlyCell(t, 1026, \h7E19)
        /\ DotDone(t)

----------------------------------------------------------------------------
(* Resets.                                                                 *)

\* Log entry t is a call of CPU::reset.
IsCpuReset(t) == "reset" \in DOMAIN log[t]

\* The registers and the prefetched word after a reset.
ResetRegisters(c, b) ==
    /\ \A r \in 0..31 : c.gpr[r] = W0
    /\ c.hi = W0 /\ c.lo = W0
    /\ c.cop0.BadA = W0 /\ c.cop0.SR = W0 /\ c.cop0.Cause = W0 /\ c.cop0.EPC = W0
    /\ c.pc = W(\hBFC0, \h0000)
    /\ c.next_pc = W(\hBFC0, \h0004)
    /\ c.instruction = memory_access(b, 4, W(\hBFC0, \h0000), 0)

\* C27: whatever the state before, CPU::reset leaves the 32 registers, hi, lo,
\* BadA, SR, Cause and EPC at 0, pc = 0xBFC00000, next_pc = 0xBFC00004, no
\* load-delay slot pending, and instruction.word equal to the bus word at
\* 0xBFC00000.
C27_Reset ==
    \A t \in Steps :
        IsCpuReset(t) =>
            /\ ResetRegisters(Post(t), PostBus(t))
            /\ ~Post(t).delay_slot.pending

\* The same without the load-delay slot, which reset leaves as it was.
C27_ResetRegisters ==
    \A t \in Steps :
        IsCpuReset(t) =>
            /\ ResetRegisters(Post(t), PostBus(t))
            /\ Post(t).delay_slot = Pre(t).delay_slot
            /\ PostBus(t) = log[t].bus

\* A reset met a register, hi and EPC that were not zero, and a pending
\* load-delay slot.
C27_DirtyCase ==
    \E t \in Steps :
        /\ IsCpuReset(t)
        /\ Pre(t).gpr[2] # W0 /\ Pre(t).hi # W0 /\ Pre(t).cop0.EPC # W0
        /\ Pre(t).pc = W(\hBFC0, \h000C)
        /\ Pre(t).delay_slot.pending
        /\ Post(t).gpr[2] = W0 /\ Post(t).pc = W(\hBFC0, \h0000)

\* Every byte of the sparse array arr reads as zero.
AllZero(arr) == \A j \in DOMAIN arr : arr[j] = 0

\* C28: after SystemBus::reset RAM has 2,097,152 addressable bytes and the
\* scratchpad 1,024, all of them zero; after GPU::reset every VRAM cell is 0
\* and the GP0 port is AwaitingCommand; and a read or write in 0x00000000 -
\* 0x001FFFFF that follows a reset accesses valid storage.
C28_Resets ==
    \A t \in Steps :
        /\ log[t].kind = "bus_reset" =>
              /\ PostBus(t).ram_size = 2097152
              /\ AllZero(PostBus(t).ram)
              /\ AllZero(PostBus(t).scratchpad)
        /\ log[t].kind = "gpu_reset" =>
              /\ AllZero(PostGpu(t).vram)
              /\ PostGpu(t).gp0_state = "AwaitingCommand"
        /\ \A r \in Steps :
              (/\ r < t /\ log[r].kind = "bus_reset"
               /\ log[t].kind \in {"read", "write"}
               /\ InRam(Physical(log[t].vaddr))) =>
                  /\ ~AccessOob(log[t].bus, log[t].size, log[t].vaddr)
                  /\ ~PostBus(t).oob

\* What the two resets do: the GPU is as the claim says; RAM is left with no
\* addressable byte, and BIOS is untouched.
C28_GpuReset ==
    \A t \in Steps :
        /\ log[t].kind = "gpu_reset" =>
              /\ AllZero(PostGpu(t).vram)
              /\ PostGpu(t).gp0_state = "AwaitingCommand"
              /\ PostGpu(t).remaining_words = 0
              /\ PostBus(t).ram = log[t].bus.ram
        /\ log[t].kind = "bus_reset" =>
              /\ PostBus(t).ram_size = 0
              /\ PostBus(t).bios = log[t].bus.bios
              /\ PostBus(t).gpu = log[t].bus.gpu

\* A word read at 0x00000004 after a reset of the bus left the array and did
\* not return 0.
C28_ReadAfterReset ==
    \E t \in Steps :
        /\ t > 1 /\ log[t - 1].kind = "bus_reset"
        /\ log[t].kind = "read" /\ log[t].size = 4 /\ log[t].vaddr = W(0, 4)
        /\ log[t].value # W0

\* The GPU was reset while it waited for the position of a dot.
C28_GpuCase ==
    \E t \in Steps :
        /\ log[t].kind = "gpu_reset"
        /\ PreGpu(t).gp0_state = "ReceivingParameters"
        /\ PostGpu(t).gp0_state = "AwaitingCommand"

----------------------------------------------------------------------------
(* COP0 moves and words that are not instructions.                         *)

IsMtc0(w) == op(w) = \h10 /\ rs(w) = 4

IsMfc0(w) == op(w) = \h10 /\ rs(w) = 0

\* The COP0 registers with storage.
LiveIndex == {8, 12, 13, 14}

LiveRegister(c, index) ==
    CASE index = 8  -> c.cop0.BadA
      [] index = 12 -> c.cop0.SR
      [] index = 13 -> c.cop0.Cause
      [] index = 14 -> c.cop0.EPC

\* Step t advanced pc and next_pc as a step that does not branch.
FellThrough(t) ==
    /\ Post(t).pc = Pre(t).next_pc
    /\ Post(t).next_pc = Add(Pre(t).next_pc, W4)

\* Step t left the registers, hi and lo, memory and the GPU as they were.
SameOutsideCop0(t) ==
    /\ Post(t).gpr = Pre(t).gpr
    /\ Post(t).hi = Pre(t).hi /\ Post(t).lo = Pre(t).lo
    /\ PostBus(t) = log[t].bus
    /\ InstrTraps(t) = <<>>

C29_DiscardedCase ==
    \E t \in Steps :
        /\ IsMtc0(log[t].word) /\ rd(log[t].word) = 9
        /\ Pre(t).gpr[1] = W(\hFFFF, \hFF33)
        /\ Pre(t).cop0.SR = W(\hFFFF, \hFF33)
        /\ Post(t).cop0.SR = W(\hFFFF, \hFF33) /\ Post(t).cop0.BadA = W0

\* The primary opcodes and the SPECIAL functs that CPU::step decodes.
DefinedOpcodes ==
    (0..16) \cup (32..38) \cup (40..43) \cup {46}

DefinedFuncts ==
    {0, 2, 3, 4, 6, 7, 8, 9, 12, 13} \cup (16..19) \cup (24..27) \cup (32..39) \cup {42, 43}

\* An undefined primary opcode, an unknown SPECIAL funct, or a COP0 word
\* that is neither MFC0, MTC0 nor RFE.
Undefined(w) ==
    \/ op(w) \notin DefinedOpcodes
    \/ op(w) = 0 /\ funct(w) \notin DefinedFuncts
    \/ op(w) = \h10 /\ rs(w) \notin {0, 4} /\ funct(w) # \h10

C30_OpcodeCase ==
    \E t \in Steps :
        /\ t < Len(log)
        /\ op(log[t].word) = \h3F
        /\ op(log[t + 1].word) = 0 /\ funct(log[t + 1].word) = \h3F
        /\ Pre(t).gpr[1] = W(\hFFFF, \hFF33)
        /\ Post(t + 1).gpr = Pre(t).gpr

----------------------------------------------------------------------------
(* Packets that do nothing.                                                *)

KnownCommands == { \h68, \hA0, \hC0 }

\* C31: in AwaitingCommand, a GP0 packet whose top 8 bits are not 0x68, 0xA0
\* or 0xC0 changes nothing (the state stays AwaitingCommand; VRAM, gpuread,
\* params and remaining_words are unchanged), and every GP1 packet changes no
\* GPU state in any GP0 state.
C31_IgnoredPackets ==
    \A t \in Steps :
        /\ (/\ log[t].kind = "gp0"
            /\ PreGpu(t).gp0_state = "AwaitingCommand"
            /\ (log[t].packet[1] \div 256) \notin KnownCommands) =>
               /\ PostGpu(t).gp0_state = "AwaitingCommand"
               /\ PostGpu(t) = PreGpu(t)
        /\ log[t].kind = "gp1" => PostGpu(t) = PreGpu(t)

\* A GP1 packet arrived between the header and the data of a transfer, and
\* the command 0x01 arrived in AwaitingCommand after a dot was drawn.
C31_Witness ==
    \E t \in Steps, u \in Steps :
        /\ log[t].kind = "gp1"
        /\ PreGpu(t).gp0_state = "ReceivingData"
        /\ PreGpu(t).remaining_words = 1
        /\ PostGpu(t).gp0_state = "ReceivingData"
        /\ log[u].kind = "gp0" /\ log[u].packet = W(\h0100, 0)
        /\ PreGpu(u).gp0_state = "AwaitingCommand"
        /\ PreGpu(u).vram # <<>>
        /\ PostGpu(u).vram = PreGpu(u).vram

----------------------------------------------------------------------------
(* The range of a branch.                                                  *)

IsConditionalBranch(w) == op(w) \in {1, 4, 5, 6, 7}

\* The condition of the conditional branch of step t holds.
ConditionHolds(t) ==
    IF op(log[t].word) = 1
    THEN BcondCondition(log[t].word, Pre(t).gpr[rs(log[t].word)])
    ELSE ~ConditionFalse(t)

\* The immediate of step t read as a signed integer.
SignedImmediate(t) == SignedHalf(immediate(log[t].word))

\* C32: for every conditional branch (BEQ, BNE, BLEZ, BGTZ, BCOND) fetched at
\* A whose condition holds, next_pc after the step is A + 4 + 4*s (mod 2^32),
\* s being the 16-bit immediate read as a signed integer, for every immediate
\* in -32768..32767.
C32_BranchTarget ==
    \A t \in Steps :
        (IsConditionalBranch(log[t].word) /\ BranchAt(t) /\ ConditionHolds(t)) =>
            Post(t).next_pc = BranchTarget(t)

\* The same for the immediates in -8192..8191, whose product by 4 is a
\* signed 16-bit value.
C32_NearTarget ==
    \A t \in Steps :
        (/\ IsConditionalBranch(log[t].word) /\ BranchAt(t) /\ ConditionHolds(t)
         /\ SignedImmediate(t) \in -8192..8191) =>
            Post(t).next_pc = BranchTarget(t)

\* BEQ $0, $0, +8192 at the reset vector went 32768 bytes back from the delay
\* slot, to 0xBFBF8004, where 0xBFC08004 is 32768 bytes forward.
C32_FarCase ==
    \E t \in Steps :
        /\ log[t].word = IType(\h04, 0, 0, \h2000)
        /\ Pre(t).pc = RESET_VECTOR
        /\ BranchTarget(t) = W(\hBFC0, \h8004)
        /\ Post(t).next_pc = W(\hBFBF, \h8004)

\* A taken BLEZ with the immediate -8192, after an ADDIU, went 32768 bytes
\* back from its delay slot.
C32_NearCase ==
    \E t \in Steps :
        /\ log[t].word = IType(\h06, 0, 0, \hE000) /\ BranchAt(t)
        /\ Pre(t).pc = Add(RESET_VECTOR, W4)
        /\ Post(t).next_pc = W(\hBFBF, \h8008)
        /\ BranchTarget(t) = W(\hBFBF, \h8008)

----------------------------------------------------------------------------
(* The bounds of VRAM.                                                     *)

\* C33: every VRAM index read or written by a GP0 command lies in
\* [0, 1024 * 512): for 0x68 with any parameter word (x or y with bit 15 set
\* included) and for 0xA0/0xC0 with any destination and size, no access falls
\* outside the VRAM array.
C33_VramBounds == ~bus.gpu.oob

\* The packet that first left the array: the position (-1, 0) of a dot,
\* whose index is -1.
C33_DotOutside ==
    \E t \in Steps :
        /\ ~PreGpu(t).oob /\ PostGpu(t).oob
        /\ PreGpu(t).func = "draw_rect"
        /\ log[t].packet = W(0, \hFFFF)
        /\ SignedHalf(log[t].packet[2]) + VRAM_WIDTH * SignedHalf(log[t].packet[1]) = -1

\* With the sent positions, destinations and sizes, only that dot leaves
\* the array.
C33_OnlyThatDot ==
    \A t \in Steps :
        (~PreGpu(t).oob /\ PostGpu(t).oob) =>
            PreGpu(t).func = "draw_rect" /\ log[t].packet = W(0, \hFFFF)

----------------------------------------------------------------------------
(* The cells a transfer changes.                                           *)

\* The VRAM cells whose value packet t changed.
ChangedCells(t) ==
    { i \in DOMAIN PreGpu(t).vram \cup DOMAIN PostGpu(t).vram :
          VramCell(PreGpu(t).vram, i) # VramCell(PostGpu(t).vram, i) }

\* The cell i, column i mod 1024 of row i div 1024, is inside the rectangle
\* [x0, x0 + w) x [y0, y0 + h) of the header words dest and size.
InRectangle(i, dest, size) ==
    /\ i % VRAM_WIDTH >= dest[2] % 1024
    /\ i % VRAM_WIDTH < (dest[2] % 1024) + DecodedWidth(size)
    /\ i \div VRAM_WIDTH >= dest[1] % 512
    /\ i \div VRAM_WIDTH < (dest[1] % 512) + DecodedHeight(size)

\* The cell i is x + 1024 * y for some x in [x0, x0 + w) and y in
\* [y0, y0 + h), x being allowed to pass 1023.
InLinearRectangle(i, dest, size) ==
    LET q == i - (dest[2] % 1024) - VRAM_WIDTH * (dest[1] % 512)
    IN  /\ q >= 0
        /\ q % VRAM_WIDTH < DecodedWidth(size)
        /\ q \div VRAM_WIDTH < DecodedHeight(size)

\* Packet t belongs to a transfer command: it is its command word, one of
\* its header words or one of the packets of its data phase.
InTransfer(t, func) ==
    \/ PreGpu(t).func = func
    \/ PreGpu(t).gp0_state = "AwaitingCommand" /\ PostGpu(t).func = func

\* C34: a CPU-to-VRAM transfer (0xA0) with destination (x0, y0) and decoded
\* size (w, h) modifies only VRAM cells inside the rectangle
\* [x0, x0 + w) x [y0, y0 + h), also when w * h is odd, and a VRAM-to-CPU
\* transfer (0xC0) modifies no VRAM cell.  Stated of the packet sent last, in
\* every state.
C34_TransferFrame ==
    \A t \in {Len(log)} \ {0} :
        /\ InTransfer(t, "to_vram") =>
               \A i \in ChangedCells(t) :
                   /\ InDataPhase(PreGpu(t))
                   /\ InRectangle(i, PreGpu(t).params[1], PreGpu(t).params[2])
        /\ InTransfer(t, "to_cpu") => ChangedCells(t) = {}

\* The same with the rectangle taken in the indices x + 1024 * y, where a
\* column past 1023 is the start of the next row.
C34_LinearFrame ==
    \A t \in {Len(log)} \ {0} :
        /\ InTransfer(t, "to_vram") =>
               \A i \in ChangedCells(t) :
                   /\ InDataPhase(PreGpu(t))
                   /\ InLinearRectangle(i, PreGpu(t).params[1], PreGpu(t).params[2])
        /\ InTransfer(t, "to_cpu") => ChangedCells(t) = {}

\* The data word of a 2x1 transfer to (1023, 1) changed the cell 2048,
\* column 0 of row 2.
C34_NextRowCase ==
    \E t \in Steps :
        /\ PreGpu(t).func = "to_vram" /\ InDataPhase(PreGpu(t))
        /\ PreGpu(t).params = <<W(1, \h03FF), W(1, 2)>>
        /\ ChangedCells(t) = {2047, 2048}

\* A 1x1 transfer, whose w * h is odd, took a packet as data and changed no
\* cell, after a dot was drawn.
C34_OddCase ==
    \E t \in Steps :
        /\ PreGpu(t).func = "to_vram" /\ InDataPhase(PreGpu(t))
        /\ PreGpu(t).params[2] = W(1, 1)
        /\ PreGpu(t).vram # <<>>
        /\ ChangedCells(t) = {}

----------------------------------------------------------------------------
(* The bounds of the backing arrays.                                       *)

\* C35: every bus access of reset() and step() -- the instruction fetch, the
\* refetch at the new pc when the step ends, and the data access of a load or
\* store -- touches only bytes inside the backing array of the region it
\* decodes to (offsets 0..2097151 of RAM, 0..1023 of the scratchpad,
\* 0..524287 of the BIOS), for every reachable pc and effective address.
C35_AccessesInBounds ==
    /\ ~AccessOob(bus, 4, RESET_VECTOR)
    /\ ~bus.oob
    /\ \A t \in Steps : \A k \in 1..Len(log[t].acc) : ~log[t].acc[k].oob

\* The accesses that leave their array are those that decode to the
\* scratchpad at an offset past 1023 and the fetches at a pc that is not a
\* multiple of 4.
C35_WhereOutside ==
    \A t \in Steps : \A k \in 1..Len(log[t].acc) :
        log[t].acc[k].oob =>
            \/ /\ Decode(log[t].acc[k].vaddr).region = "scratchpad"
               /\ Decode(log[t].acc[k].vaddr).off + log[t].acc[k].size > SCRATCHPAD_SIZE
            \/ /\ log[t].acc[k].kind = "fetch"
               /\ log[t].acc[k].vaddr[2] % 4 # 0

\* After JR to 0x001FFFFE, the step of the delay slot ended with a fetch of
\* the four bytes at 0x001FFFFE, two of them past the end of RAM.
C35_RefetchCase ==
    \E t \in Steps :
        /\ Post(t).pc = W(\h001F, \hFFFE)
        /\ log[t].acc[Len(log[t].acc)] =
               [kind |-> "fetch", size |-> 4, vaddr |-> W(\h001F, \hFFFE), oob |-> TRUE]
        /\ log[t].traps = <<>>

\* LW at 0x1F800400 read the scratchpad array at the offsets 1024..1027.
C35_ScratchpadCase ==
    \E t \in Steps :
        /\ log[t].word = IType(\h23, 1, 2, \h0400)
        /\ Pre(t).gpr[1] = W(\h1F80, 0)
        /\ \E k \in 1..Len(log[t].acc) :
              /\ log[t].acc[k].kind = "read" /\ log[t].acc[k].oob
              /\ log[t].acc[k].vaddr = W(\h1F80, \h0400)

----------------------------------------------------------------------------
(* What a trap leaves alone.                                               *)

\* The CPU before and after trap entry tr differ at most in EPC, SR, Cause,
\* pc and next_pc, and in BadA when the code is AdEL.
TrapFrame(tr) ==
    /\ tr.after.gpr = tr.before.gpr
    /\ tr.after.hi = tr.before.hi
    /\ tr.after.lo = tr.before.lo
    /\ tr.after.instruction = tr.before.instruction
    /\ tr.after.cop0.unused = tr.before.cop0.unused
    /\ tr.exc # AdEL => tr.after.cop0.BadA = tr.before.cop0.BadA

C36_OverflowCase ==
    \E t \in Steps :
        /\ Len(log[t].traps) = 1 /\ log[t].traps[1].exc = Ovf
        /\ Pre(t).cop0.BadA = W(\h7FFF, 0) /\ Post(t).cop0.BadA = W(\h7FFF, 0)
        /\ Post(t).gpr[3] = W0

----------------------------------------------------------------------------
(* The link register as an operand.                                        *)

IsJalr(w) == op(w) = 0 /\ funct(w) = 9

IsLinkingBcond(w) == op(w) = 1 /\ rt(w) \div 16 = 1

\* What C37 says of step t when the operand register held v.
LinkEffect(t, v) ==
    /\ IsJalr(log[t].word) => Post(t).next_pc = v
    /\ IsLinkingBcond(log[t].word) =>
           Post(t).next_pc = IF BcondCondition(log[t].word, v) THEN BranchTarget(t)
                             ELSE Add(Pre(t).next_pc, W4)

\* C37: the link-register write of a linking instruction never changes that
\* instruction's jump target or branch decision: JALR sets next_pc to the
\* value gpr[rs] held before the instruction (also when rd = rs), and a
\* linking BCOND evaluates its condition on the value gpr[rs] held before the
\* instruction (also when rs = 31).
C37_LinkKeepsOperand ==
    \A t \in Steps :
        ~EntryTrap(t) => LinkEffect(t, Pre(t).gpr[rs(log[t].word)])

\* The same with the operand read after the link register is written: it
\* is the link address when the two registers are the same.
C37_OperandAfterLink ==
    \A t \in Steps :
        ~EntryTrap(t) =>
            LinkEffect(t, IF \/ IsJalr(log[t].word)
                                 /\ rd(log[t].word) = rs(log[t].word)
                             \/ IsLinkingBcond(log[t].word)
                                 /\ rs(log[t].word) = 31
                          THEN Add(Pre(t).next_pc, W4)
                          ELSE Pre(t).gpr[rs(log[t].word)])

\* JALR $1, $1 at 0xBFC00004 with $1 = 0xBFC00000 went to its own link
\* address 0xBFC0000C.
C37_JalrCase ==
    \E t \in Steps :
        /\ log[t].word = RType(1, 0, 1, 0, \h09)
        /\ Pre(t).pc = W(\hBFC0, \h0004)
        /\ Pre(t).gpr[1] = W(\hBFC0, 0)
        /\ Post(t).next_pc = W(\hBFC0, \h000C)
        /\ Post(t).gpr[1] = W(\hBFC0, \h000C)

\* BGEZAL $31 at 0xBFC00004 with $31 = 1 was not taken: it fell through to
\* 0xBFC0000C, its target being 0xBFC00010.
C37_BcondCase ==
    \E t \in Steps :
        /\ log[t].word = IType(\h01, 31, \h11, 2)
        /\ Pre(t).gpr[31] = W(0, 1)
        /\ Pre(t).pc = W(\hBFC0, \h0004)
        /\ Post(t).next_pc = W(\hBFC0, \h000C)
        /\ BranchTarget(t) = W(\hBFC0, \h0010)

----------------------------------------------------------------------------
(* Trap and RFE.                                                           *)

IsRfe(w) == op(w) = \h10 /\ rs(w) \notin {0, 4} /\ funct(w) = \h10

\* Bits 3:0, bits 5:4, bits 5:2 and bits 31:6 of a word.
Bits3To0(w) == w[2] % 16

Bits5To4(w) == (w[2] \div 16) % 4

Bits5To2(w) == (w[2] \div 4) % 16

Bits31To6(w) == <<w[1], w[2] \div 64>>

\* C38: for every SR value s, taking a trap and then executing RFE leaves
\* SR bits 3:0 equal to bits 3:0 of s and SR bits 31:6 equal to bits 31:6 of
\* s; RFE by itself changes only SR bits 3:0 (to the old bits 5:2) and leaves
\* bits 5:4 and 31:6 unchanged.
C38_TrapRfeRoundTrip ==
    \A t \in Steps :
        /\ (/\ t < Len(log)
            /\ ~EntryTrap(t) /\ Len(log[t].traps) = 1
            /\ IsRfe(log[t + 1].word)) =>
               /\ Bits3To0(Post(t + 1).cop0.SR) = Bits3To0(Pre(t).cop0.SR)
               /\ Bits31To6(Post(t + 1).cop0.SR) = Bits31To6(Pre(t).cop0.SR)
        /\ (IsRfe(log[t].word) /\ ~EntryTrap(t)) =>
               /\ Bits3To0(Post(t).cop0.SR) = Bits5To2(Pre(t).cop0.SR)
               /\ Bits5To4(Post(t).cop0.SR) = Bits5To4(Pre(t).cop0.SR)
               /\ Bits31To6(Post(t).cop0.SR) = Bits31To6(Pre(t).cop0.SR)
               /\ Post(t).cop0 = [Pre(t).cop0 EXCEPT !.SR = Post(t).cop0.SR]
               /\ FellThrough(t) /\ SameOutsideCop0(t)

\* With SR = 0xFFFFFF99, SYSCALL left 0xFFFFFFA4 in SR and the RFE at the
\* exception vector left 0xFFFFFFA9.
C38_Witness ==
    \E t \in Steps :
        /\ t < Len(log)
        /\ Pre(t).cop0.SR = W(\hFFFF, \hFF99)
        /\ log[t].word = RType(0, 0, 0, 0, \h0C)
        /\ Post(t).cop0.SR = W(\hFFFF, \hFFA4)
        /\ Pre(t + 1).pc = VECTOR
        /\ log[t + 1].word = RFE_WORD
        /\ Post(t + 1).cop0.SR = W(\hFFFF, \hFFA9)

\* RFE ran by itself in the BIOS with SR = 0x39 and left 0x3E.
C38_AloneCase ==
    \E t \in Steps :
        /\ log[t].word = RFE_WORD /\ log[t].traps = <<>>
        /\ Pre(t).cop0.SR = W(0, \h0039)
        /\ Post(t).cop0.SR = W(0, \h003E)

----------------------------------------------------------------------------
(* An unaligned store followed by an unaligned load.                       *)

\* Steps t and t + 1 executed SWR at an address v and SWL at v + 3 with the
\* same register, the bytes v .. v + 3 being RAM.
StorePair(t) ==
    /\ t + 1 <= Len(log) /\ ~EntryTrap(t) /\ ~EntryTrap(t + 1)
    /\ op(log[t].word) = \h2E /\ op(log[t + 1].word) = \h2A
    /\ rt(log[t].word) = rt(log[t + 1].word)
    /\ EffectiveAddress(t + 1) = Add(EffectiveAddress(t), W(0, 3))
    /\ \A k \in 0..3 : InRam(Physical(Add(EffectiveAddress(t), W(0, k))))

\* Steps t + 2 and t + 3 executed LWR at the same v and LWL at v + 3 into
\* one register.
LoadPair(t) ==
    /\ t + 3 <= Len(log) /\ ~EntryTrap(t + 2) /\ ~EntryTrap(t + 3)
    /\ op(log[t + 2].word) = \h26 /\ op(log[t + 3].word) = \h22
    /\ rt(log[t + 2].word) = rt(log[t + 3].word)
    /\ EffectiveAddress(t + 2) = EffectiveAddress(t)
    /\ EffectiveAddress(t + 3) = Add(EffectiveAddress(t), W(0, 3))

\* The store pair of steps t and t + 1 raised no trap and wrote the bytes of
\* the register, little-endian, at v .. v + 3 and nothing else.
StoredExactly(t) ==
    LET v == EffectiveAddress(t)
        p == Physical(v)
        b0 == log[t].bus
        b1 == PostBus(t + 1)
    IN  /\ log[t].traps = <<>> /\ log[t + 1].traps = <<>>
        /\ BytewiseWord(b1, v) = Pre(t).gpr[rt(log[t].word)]
        /\ SameOutside(b0.ram, b1.ram, p[1] * 65536 + p[2], 4)
        /\ b1.scratchpad = b0.scratchpad /\ b1.bios = b0.bios
        /\ b1.gpu = b0.gpu /\ b1.oob = b0.oob

\* C39 as stated: SWR at v and SWL at v + 3 with gpr[rt] = x write exactly
\* the four bytes v .. v + 3 (the little-endian bytes of x) and no other byte,
\* and a subsequent LWR at v followed by LWL at v + 3 into any register yields
\* x; SWL and SWR never trap.
C39_AsStated ==
    \A t \in Steps :
        /\ (op(log[t].word) \in {\h2A, \h2E} /\ ~EntryTrap(t)) => log[t].traps = <<>>
        /\ StorePair(t) => StoredExactly(t)
        /\ (StorePair(t) /\ LoadPair(t)) =>
               Post(t + 3).gpr[rt(log[t + 3].word)] = Pre(t).gpr[rt(log[t].word)]

\* C39: the same, the loads being into any register other than $0.
C39_UnalignedRoundTrip ==
    \A t \in Steps :
        /\ (op(log[t].word) \in {\h2A, \h2E} /\ ~EntryTrap(t)) => log[t].traps = <<>>
        /\ StorePair(t) => StoredExactly(t)
        /\ (StorePair(t) /\ LoadPair(t) /\ rt(log[t + 3].word) # 0) =>
               Post(t + 3).gpr[rt(log[t + 3].word)] = Pre(t).gpr[rt(log[t].word)]

\* SWR at 0xA0120001 and SWL at 0xA0120004 stored 0xA0127BCD over the words
\* 0xA0120000, 0xA0120000, leaving 0x127BCD00 and 0xA01200A0, and LWR and LWL
\* at the same addresses left 0xA0127BCD in $3.
C39_Witness ==
    \E t \in Steps :
        /\ StorePair(t) /\ LoadPair(t)
        /\ EffectiveAddress(t) = W(\hA012, 1)
        /\ Pre(t).gpr[2] = W(\hA012, \h7BCD)
        /\ WordOf(log[t].bus.ram, \h120000) = W(\hA012, 0)
        /\ WordOf(log[t].bus.ram, \h120004) = W(\hA012, 0)
        /\ WordOf(PostBus(t + 1).ram, \h120000) = W(\h127B, \hCD00)
        /\ WordOf(PostBus(t + 1).ram, \h120004) = W(\hA012, \h00A0)
        /\ rt(log[t + 3].word) = 3
        /\ Post(t + 3).gpr[3] = W(\hA012, \h7BCD)

\* The loads were into the base register: LWR at 0x4320 left 0x4321 in $1
\* and LWL with the offset 2 was at 0x4323.
C39_BaseCase ==
    \E t \in Steps :
        /\ StorePair(t) /\ LoadPair(t)
        /\ rt(log[t + 3].word) = 1 /\ rs(log[t + 3].word) = 1
        /\ Pre(t).gpr[2] = W(0, \h4321)
        /\ Post(t + 3).gpr[1] = W(0, \h4321)

\* The loads were into $0, which stayed 0.
C39_ZeroCase ==
    \E t \in Steps :
        /\ StorePair(t) /\ LoadPair(t)
        /\ rt(log[t + 3].word) = 0
        /\ Pre(t).gpr[2] = W(\hA012, \h7BCD)
        /\ Post(t + 3).gpr[0] = W0

----------------------------------------------------------------------------
(* The parameters of a command.                                            *)

\* C40: whenever the GP0 port is in AwaitingCommand after any packet sequence
\* from reset, the parameter list is empty, so the header words of the next
\* 0xA0/0xC0 command are params[0] (destination) and params[1] (size) and the
\* position word of the next 0x68 command is params[1] (after the color in
\* params[0]): no parameter of a completed or unknown command leaks into a
\* later command.  (The model's sequences count from 1.)  The parts about a
\* packet are stated of the packet sent last, in every state.
C40_NoLeftoverParams ==
    /\ bus.gpu.gp0_state = "AwaitingCommand" => bus.gpu.params = <<>>
    /\ \A t \in {Len(log)} \ {0} :
          /\ IsSizeWord(t) =>
                 /\ t > 1
                 /\ PostGpu(t).params = <<log[t - 1].packet, log[t].packet>>
          /\ IsPositionWord(t) =>
                 /\ t > 1
                 /\ PreGpu(t).params =
                        <<W(log[t - 1].packet[1] % 256, log[t - 1].packet[2])>>

\* After a dot, a 2x1 transfer to VRAM and the unknown command 0x01, the
\* header of a 0xC0 command is the whole parameter list.
C40_Witness ==
    \E d \in Steps, u \in Steps, t \in Steps :
        /\ d < u /\ u < t
        /\ IsPositionWord(d)
        /\ PostGpu(d).vram # <<>>
        /\ log[u].packet = W(\h0100, 0)
        /\ PreGpu(u).gp0_state = "AwaitingCommand"
        /\ PreGpu(u).vram # PostGpu(d).vram
        /\ IsSizeWord(t) /\ PreGpu(t).func = "to_cpu"
        /\ PostGpu(t).params = <<W(1, 2), W(2, 2)>>

====
